---- MODULE Spec2Model ----
(***************************************************************************)
(* Model of the POST handler of app/api/insight/route.ts (the memory-aware *)
(* handler, lines 617-1191) together with the two process-wide stores it   *)
(* shares between requests: the in-memory rate-limit map and the external  *)
(* user_memories table.                                                    *)
(*                                                                         *)
(* A request is a JavaScript async function: it runs without interruption  *)
(* between two awaits.  Each action below is one such run-to-suspension    *)
(* segment of one request, so the actions of different requests interleave *)
(* exactly at the awaits of the handler (req.json(), the memory select,    *)
(* each memory upsert, the completion call).                               *)
(*                                                                         *)
(* Representation.                                                         *)
(*   optional number   <<>> (undefined) or <<n>>                           *)
(*   raw JSON value    a tagged record, see num                            *)
(*   text              a sequence of string chunks, read concatenated      *)
(*   question          a sequence of lower-case phrase tokens              *)
(*   heightCm          in 1/100 cm, sleep hours in 1/10 h, the rest whole  *)
(* Strings hold ASCII only: the em dash is written "--", the bullet "*",   *)
(* the prime "'" and the double prime "''", the right quote "'".           *)
(***************************************************************************)
EXTENDS Integers, Sequences, FiniteSets, TLC

\* ---------------------------------------------------------------- constants

RATE_WINDOW_MS == 60000
RATE_MAX == 30

\* ------------------------------------------------------------------- bounds

\* The clock advances in steps of half a window, MaxTicks times at most.
MaxTicks == 3
\* A write of a counter above MaxCounter is made to fail (keeps the store finite).
MaxCounter == 3
\* In Spec a user's requests stop arriving once the entry counts MaxCount.
MaxCount == 2
\* In SpecRate requests stop arriving MaxOver requests after the limit is hit.
MaxOver == 2

TickMs == RATE_WINDOW_MS \div 2

Users == {"u1", "u2"}
NoUser == ""
Slots == {"a", "b"}

Absent == <<>>
Some(n) == <<n>>
Known(x) == x # Absent
Val(x) == x[1]

\* ------------------------------------------------------------ text helpers

RECURSIVE Join(_, _)
\* Array.prototype.join on strings.
Join(parts, sep) ==
    IF parts = <<>> THEN ""
    ELSE IF Len(parts) = 1 THEN parts[1]
    ELSE parts[1] \o sep \o Join(Tail(parts), sep)

\* `${n}` of a number held in tenths: 75 is "7.5", 70 is "7".
Tenths(n) ==
    IF n % 10 = 0 THEN ToString(n \div 10)
    ELSE ToString(n \div 10) \o "." \o ToString(n % 10)

\* ---------------------------------------------------------- raw JSON values

\* A raw JSON value of a bag: null/undefined, a finite number, NaN or an
\* infinity, a string that Number() parses to n, the empty string (Number("")
\* is 0), any other string (Number gives NaN).
RawNull == [t |-> "null"]
RawNum(n) == [t |-> "num", n |-> n]
RawNaN == [t |-> "nan"]
RawInfinity == [t |-> "infinity"]
RawNumStr(n) == [t |-> "numstr", n |-> n]
RawEmptyStr == [t |-> "emptystr"]
RawJunk == [t |-> "junk"]
RawTrue == [t |-> "true"]

num(x) ==
    IF x.t \in {"num", "numstr"} THEN Some(x.n)
    ELSE IF x.t = "emptystr" THEN Some(0)
    ELSE Absent

\* Mutant: the inches truncated, not rounded.
cmToFtInFloor(cm) ==
    IF cm = Absent THEN Absent
    ELSE LET ft == Val(cm) \div 3048
             inch == (Val(cm) - ft * 3048) \div 254
         IN  Some(ToString(ft) \o "' " \o ToString(inch) \o "''")

\* cm is in 1/100 cm: totalIn = cm / 254, one foot is 3048.
cmToFtIn(cm) ==
    IF cm = Absent THEN Absent
    ELSE LET ft == Val(cm) \div 3048
             inch == (2 * (Val(cm) - ft * 3048) + 254) \div 508
         IN  Some(ToString(ft) \o "' " \o ToString(inch) \o "''")

\* Math.round(kg * 2.2046226218) for whole kg below 900, in exact arithmetic.
kgToLbs(kg) ==
    IF kg = Absent THEN Absent
    ELSE Some((Val(kg) * 2204622 + (Val(kg) * 6218) \div 10000 + 500000)
              \div 1000000)

\* ------------------------------------------------------------ the question

\* The raw question: not a string (missing, null, a number ...) or a string,
\* given as its sequence of lower-case phrase tokens; " " is white space.
NoQuestion == [t |-> "none"]
Question(w) == [t |-> "str", w |-> w]

\* question.trim() is empty.
Blank(w) == \A i \in 1..Len(w) : w[i] = " "

\* Mutant: the question is not trimmed before it is tested.
InvalidRequestNoTrim(in) ==
    \/ in.userId = NoUser
    \/ in.question.t # "str"
    \/ in.question.w = <<>>

InvalidRequest(in) ==
    \/ in.userId = NoUser
    \/ in.question.t # "str"
    \/ Blank(in.question.w)

AskPhrases == {"do you know", "what's", "what is", "tell me"}
ProfileWords == {"height", "weight", "age"}
RecoveryWords == {"recovery", "readiness", "sleep", "hrv", "sdnn",
                  "resting hr", "rhr", "resting heart"}

\* /\b(do you know|what\s*'s|what is|tell me)\b.*\b(height|weight|age)\b/
isProfileQuery(w) ==
    \E i, j \in 1..Len(w) : i < j /\ w[i] \in AskPhrases /\ w[j] \in ProfileWords

\* /\b(recovery|readiness|sleep|hrv|sdnn|resting\s*hr|rhr|resting heart)\b/
isRecoveryQuery(w) == \E i \in 1..Len(w) : w[i] \in RecoveryWords

\* -------------------------------------------------------- metric normalizer

\* hrvRaw === 0 ? undefined : hrvRaw
ZeroIsAbsent(x) == IF x = Some(0) THEN Absent ELSE x

\* (steps7dAvg != null && steps7dAvg >= 2000) ? steps7dAvg : undefined
steps7dAvgUsable(avg) ==
    IF Known(avg) /\ Val(avg) >= 2000 THEN avg ELSE Absent

\* The normalized fields the handler derives from the raw bags.
Normalize(in) ==
    [ steps            |-> num(in.steps),
      totalCaloriesBurned |-> num(in.totalCaloriesBurned),
      dietaryCalories  |-> num(IF in.dietaryEnergyConsumed.t # "null"
                               THEN in.dietaryEnergyConsumed
                               ELSE in.dietaryCalories),
      proteinRemainingG |-> num(in.proteinRemainingG),
      sleepHours       |-> num(in.sleepHours),
      restingHeartRate |-> num(in.restingHeartRate),
      hrvSdnn          |-> ZeroIsAbsent(num(in.hrvSdnn)),
      dietaryProteinG  |-> num(in.dietaryProteinG),
      age              |-> num(in.age),
      heightCm         |-> num(in.heightCm),
      weightKg         |-> num(in.weightKg),
      heightUs         |-> cmToFtIn(num(in.heightCm)),
      weightLbs        |-> kgToLbs(num(in.weightKg)),
      sleepAvg7d       |-> num(in.sleepAvg7d),
      rhrAvg7d         |-> num(in.rhrAvg7d),
      hrvAvg7d         |-> num(in.hrvAvg7d),
      tzOffsetMinutes  |-> num(in.tzOffsetMinutes),
      steps7dAvg       |-> num(in.steps7dAvg),
      steps7dAvgUsable |-> steps7dAvgUsable(num(in.steps7dAvg)),
      workoutMinutes   |-> num(in.workoutMinutes),
      workoutCount     |-> num(in.workoutCount),
      hasAnyNutritionToday |-> in.hasAnyNutritionToday = RawTrue,
      proteinBehindPace |-> in.proteinBehindPace = RawTrue,
      pressurePreference |-> IF num(in.pressure) = Absent THEN 2
                             ELSE Val(num(in.pressure)) ]

\* ------------------------------------------------------------- user memory

\* The user_memories rows the handler reads and writes, per user: a row is
\* absent or holds a value.
NoMemory ==
    [days_active |-> Absent, protein_streak_days |-> Absent,
     last_feedback |-> Absent]

\* Number(memories.days_active ?? 0) and its neighbours.
daysActive(memories) ==
    IF Known(memories.days_active) THEN Val(memories.days_active) ELSE 0
proteinStreak(memories) ==
    IF Known(memories.protein_streak_days)
    THEN Val(memories.protein_streak_days) ELSE 0
lastFeedback(memories) == memories.last_feedback

\* --------------------------------------------------- deterministic replies

\* text + footer, the footer a string.
Plus(text, footer) == IF footer = "" THEN text ELSE Append(text, footer)

fmt(x) == IF x = Absent THEN "--" ELSE ToString(Val(x))

\* The debug footer, empty unless DEBUG_AI.  Of its lines only those whose
\* values are modelled are written out.
debugFooter(debug, m, memories) ==
    IF debug
    THEN "\n\n--\nDEBUG"
         \o "\n* daysActive: " \o ToString(daysActive(memories))
         \o "\n* proteinStreak: " \o ToString(proteinStreak(memories))
         \o "\n* profile.age: " \o fmt(m.age)
         \o "\n* profile.height: "
         \o (IF Known(m.heightUs) THEN Val(m.heightUs) ELSE "--")
         \o "\n* profile.weight: "
         \o (IF Known(m.weightLbs) THEN ToString(Val(m.weightLbs)) \o " lb"
             ELSE "--")
    ELSE ""

AnyProfileKnown(m) == Known(m.heightUs) \/ Known(m.weightLbs) \/ Known(m.age)

\* Mutant: the shortcut taken on the flag alone.
ProfileShortcutFlagOnly(w, m) == isProfileQuery(w)

\* if (isProfileQuery && (heightUs || weightLbs != null || age != null))
ProfileShortcut(w, m) == isProfileQuery(w) /\ AnyProfileKnown(m)

profileParts(m) ==
    (IF Known(m.heightUs) THEN <<"Height: " \o Val(m.heightUs)>> ELSE <<>>)
    \o (IF Known(m.weightLbs)
        THEN <<"Weight: " \o ToString(Val(m.weightLbs)) \o " lb">> ELSE <<>>)
    \o (IF Known(m.age) THEN <<"Age: " \o ToString(Val(m.age))>> ELSE <<>>)

NoProfileMsg == "I don't see height/weight/age from HealthKit yet."

profileReply(debug, m) ==
    LET parts == profileParts(m)
        baseReply == IF parts # <<>>
                     THEN "Yep -- " \o Join(parts, " * ") \o "."
                     ELSE NoProfileMsg
    IN  IF debug THEN "[PROFILE_SHORTCUT] " \o baseReply ELSE baseReply

\* if (isRecoveryQuery), reached only when the profile shortcut did not return.
RecoveryShortcut(w, m) == isRecoveryQuery(w)

\* Mutant: a zero sleep value counted as present.
hasSleepOrZero(m) == Known(m.sleepHours) /\ Val(m.sleepHours) >= 0

hasSleep(m) == Known(m.sleepHours) /\ Val(m.sleepHours) > 0
hasRhr(m) == Known(m.restingHeartRate) /\ Val(m.restingHeartRate) > 0
hasHrv(m) == Known(m.hrvSdnn) /\ Val(m.hrvSdnn) > 0

RecoveryNotReadyMsg ==
    "I don't have today's recovery metrics yet (sleep/HRV/resting HR are "
    \o "blank right now). Tap refresh once and I'll give you a real "
    \o "recovery read."

recoveryParts(m) ==
    (IF hasSleep(m) THEN <<"Sleep: " \o Tenths(Val(m.sleepHours)) \o "h">>
     ELSE <<>>)
    \o (IF hasRhr(m)
        THEN <<"Resting HR: " \o ToString(Val(m.restingHeartRate)) \o " bpm">>
        ELSE <<>>)
    \o (IF hasHrv(m)
        THEN <<"HRV (SDNN): " \o ToString(Val(m.hrvSdnn)) \o " ms">>
        ELSE <<>>)

\* The reasoning note: sleep first, then resting heart rate.
recoveryNote(m) ==
    LET sleepBelowUsual ==
            /\ Known(m.sleepHours) /\ Known(m.sleepAvg7d)
            /\ Val(m.sleepHours) - Val(m.sleepAvg7d) <= -7
        rhrAbove ==
            /\ Known(m.restingHeartRate) /\ Known(m.rhrAvg7d)
            /\ Val(m.restingHeartRate) - Val(m.rhrAvg7d) >= 6
    IN  IF hasSleep(m)
        THEN (IF sleepBelowUsual
              THEN "Sleep was a bit below your usual ("
                   \o Tenths(Val(m.sleepAvg7d))
                   \o "h avg) -- I'd keep intensity lighter today."
              ELSE IF Val(m.sleepHours) < 65
              THEN "Sleep is a bit short -- take it slightly easier today."
              ELSE "Sleep looks solid -- recovery should be decent.")
             \o (IF ~hasHrv(m)
                 THEN " HRV isn't recorded every day for everyone -- I'm "
                      \o "leaning on sleep + resting HR."
                 ELSE "")
        ELSE IF hasRhr(m)
        THEN (IF rhrAbove
              THEN "Resting HR is above your recent baseline -- that's often "
                   \o "a sign to go easier today."
              ELSE "Recovery looks okay from resting HR.")
             \o (IF ~hasHrv(m) THEN " (HRV isn't available today.)" ELSE "")
        ELSE "Recovery is hard to judge without sleep or resting HR -- tap "
             \o "refresh once after Health finishes syncing."

recoveryReply(m) ==
    IF ~hasSleep(m) /\ ~hasRhr(m) /\ ~hasHrv(m)
    THEN RecoveryNotReadyMsg
    ELSE Join(recoveryParts(m), " * ") \o ". " \o recoveryNote(m)

\* ------------------------------------------------------------------- state

VARIABLES
    env,      \* process environment: apiKey, supabase, debug (DEBUG_AI)
    now,      \* Date.now(), in ms
    rateMap,  \* rateMap: user id -> Absent or Some([count, resetAt])
    store,    \* user_memories: user id -> rows
    pc,       \* per request slot: where the handler is suspended
    inp,      \* per slot: the request body
    mem,      \* per slot: the memory snapshot the request read
    resp,     \* per slot: Absent or Some([status, body])
    writes,   \* per slot: the upserts its memory updater has still to make
    trace,    \* history: per slot, the pipeline stages the request has run
    gate,     \* history: per slot, what the limiter did with the request
    win,      \* history: per user, the requests counted in the current window
    hist,     \* history: per user, the memory updaters started so far (counted
              \* up to MaxCounter + 1) and whether one of their upserts failed
    ctx,      \* per slot: Absent or the locals derived from body and clock
    calls     \* history: per slot, the completion calls made, each "pending"
              \* or what it came back with

vars == <<env, now, rateMap, store, pc, inp, mem, resp, writes, trace, gate,
          win, hist, ctx, calls>>

NoInput == [userId |-> NoUser, question |-> NoQuestion]

Response(status, body) == Some([status |-> status, body |-> body])
Status(s) == IF resp[s] = Absent THEN 0 ELSE Val(resp[s]).status
BodyOf(s) == Val(resp[s]).body

MisconfiguredMsg == "Server misconfigured: missing OpenAI credentials"
InvalidMsg == "userId and valid question are required"
RateLimitMsg == "Rate limit exceeded. Try again in a minute."
FailedMsg == "Failed to generate insight"

\* ------------------------------------------------------------ rate limiter

Entry(count, resetAt) == Some([count |-> count, resetAt |-> resetAt])

\* if (!entry || now > entry.resetAt)
WindowOver(entry, t) == entry = Absent \/ t > Val(entry).resetAt

CountedOnCopy(entry, t) ==
    IF entry = Absent \/ t > Val(entry).resetAt
    THEN Some([count |-> 1, resetAt |-> t + RATE_WINDOW_MS])
    ELSE entry

\* Mutants: the entry of a window that is over is deleted; the reset time
\* moves with every request.
CountedForgetting(entry, t) ==
    IF entry = Absent THEN Some([count |-> 1, resetAt |-> t + RATE_WINDOW_MS])
    ELSE IF t > Val(entry).resetAt THEN Absent
    ELSE Some([count |-> Val(entry).count + 1, resetAt |-> Val(entry).resetAt])

CountedSliding(entry, t) ==
    IF entry = Absent \/ t > Val(entry).resetAt
    THEN Some([count |-> 1, resetAt |-> t + RATE_WINDOW_MS])
    ELSE Some([count |-> Val(entry).count + 1,
               resetAt |-> t + RATE_WINDOW_MS])

\* The entry after one request at time t: set to {1, t + window} or count += 1.
Counted(entry, t) ==
    IF WindowOver(entry, t)
    THEN Entry(1, t + RATE_WINDOW_MS)
    ELSE Entry(Val(entry).count + 1, Val(entry).resetAt)

\* Mutants of the limiter: the limit one too low, no limit, the increment
\* made on a copy of the entry.
RateLimitedOffByOne(entry, t) ==
    ~(entry = Absent \/ t > Val(entry).resetAt)
    /\ Val(entry).count + 1 >= RATE_MAX

RateLimitedNever(entry, t) == FALSE

\* Whether the request at time t is answered 429: only on the increment
\* branch, when the incremented count exceeds RATE_MAX.
RateLimited(entry, t) ==
    ~WindowOver(entry, t) /\ Val(entry).count + 1 > RATE_MAX

\* --------------------------------------------------------- intent detection

\* ------------------------------------------------- readiness, time of day

\* Math.round(restingHeartRate - rhrAvg7d) and Math.round(hrvSdnn - hrvAvg7d)
\* when both terms are known (whole numbers here).
rhrDeltaBpm(m) ==
    IF Known(m.restingHeartRate) /\ Known(m.rhrAvg7d)
    THEN Some(Val(m.restingHeartRate) - Val(m.rhrAvg7d)) ELSE Absent

hrvDeltaMs(m) ==
    IF Known(m.hrvSdnn) /\ Known(m.hrvAvg7d)
    THEN Some(Val(m.hrvSdnn) - Val(m.hrvAvg7d)) ELSE Absent

\* Mutant: green wants more than 7 h of sleep.
readinessHintOverSeven(m) ==
    LET rhr == rhrDeltaBpm(m)
        hrv == hrvDeltaMs(m)
    IN  IF \/ Known(m.sleepHours) /\ Val(m.sleepHours) < 60
           \/ Known(rhr) /\ Val(rhr) >= 6
           \/ Known(hrv) /\ Val(hrv) <= -10
        THEN "red"
        ELSE IF /\ Known(m.sleepHours) /\ Val(m.sleepHours) > 70
                /\ (~Known(rhr) \/ Val(rhr) <= 0)
                /\ (~Known(hrv) \/ Val(hrv) >= 0)
        THEN "green"
        ELSE "yellow"

\* Sleep is in tenths of an hour: 6 h is 60, 7 h is 70.
readinessHint(m) ==
    LET rhr == rhrDeltaBpm(m)
        hrv == hrvDeltaMs(m)
    IN  IF \/ Known(m.sleepHours) /\ Val(m.sleepHours) < 60
           \/ Known(rhr) /\ Val(rhr) >= 6
           \/ Known(hrv) /\ Val(hrv) <= -10
        THEN "red"
        ELSE IF /\ Known(m.sleepHours) /\ Val(m.sleepHours) >= 70
                /\ (~Known(rhr) \/ Val(rhr) <= 0)
                /\ (~Known(hrv) \/ Val(hrv) >= 0)
        THEN "green"
        ELSE "yellow"

MsPerMinute == 60000
MsPerHour == 3600000

\* The hour of the day at the user's offset (minutes behind UTC), at time t;
\* without an offset, the hour on the server's clock, which runs on UTC.
localHour(m, t) ==
    LET localMs == IF Known(m.tzOffsetMinutes)
                   THEN t - Val(m.tzOffsetMinutes) * MsPerMinute
                   ELSE t
    IN  (localMs \div MsPerHour) % 24

\* Mutant: one meal left only after 21:59.
mealsLeftLate(hour) ==
    IF hour < 11 THEN 3 ELSE IF hour < 16 THEN 2 ELSE IF hour <= 21 THEN 2 ELSE 1

mealsLeft(hour) ==
    IF hour < 11 THEN 3 ELSE IF hour < 16 THEN 2 ELSE IF hour < 21 THEN 2 ELSE 1

Min(a, b) == IF a < b THEN a ELSE b
Max(a, b) == IF a > b THEN a ELSE b

\* Math.round(x / d) for whole x and d > 0: halves go up.
RoundDiv(x, d) == (2 * x + d) \div (2 * d)

proteinPerMealG(m, hour) ==
    IF Known(m.proteinRemainingG)
    THEN Some(Min(70, Max(25, RoundDiv(Val(m.proteinRemainingG),
                                       mealsLeft(hour)))))
    ELSE Absent

\* ------------------------------------------------------------------ intent

Has(w, words) == \E i \in 1..Len(w) : w[i] \in words

MetaFeedbackWords == {"why are you", "too harsh", "too repetitive",
                      "stop roasting", "same answers", "feedback"}
MotivationWords == {"roast me", "be harsh", "push me", "motivate",
                    "do your worst", "kick my ass", "be strict",
                    "hold me accountable"}
FoodWords == {"what should i eat", "dinner", "lunch", "snack", "chicken",
              "steak", "shrimp", "tacos", "pizza", "dessert", "menu",
              "burrito", "lasagna", "pasta"}
ProgressWords == {"progress", "how am i doing", "how's my", "how is my",
                  "today so far", "late night check", "recap"}
BaseNumbersWords == {"number", "numbers", "calories", "kcal", "deficit",
                     "calculate", "calculated", "how did you",
                     "show your work", "math"}
MacroWords == {"protein", "carb", "carbs", "fat", "fiber", "macro", "macros"}
\* A numeral token stands for \d+.
Numerals == {"0", "7", "150"}
NumberCueWords == Numerals \cup {"gram", "grams", "g", "kcal", "calories",
                                 "how many", "how much", "what are",
                                 "number", "numbers"}

isMetaFeedback(w) == Has(w, MetaFeedbackWords)
isMotivationRequest(w) == Has(w, MotivationWords)
isFoodQuestion(w) == Has(w, FoodWords)
isProgressCheck(w) == Has(w, ProgressWords)
isNumbersRequest(w) ==
    Has(w, BaseNumbersWords) \/ (Has(w, MacroWords) /\ Has(w, NumberCueWords))

\* Mutant: the numbers rule before the numbers-and-motivation rule.
intentNumbersFirst(w) ==
    IF isMetaFeedback(w) THEN "meta_feedback"
    ELSE IF isNumbersRequest(w) THEN "numbers"
    ELSE IF isNumbersRequest(w) /\ isMotivationRequest(w) THEN "motivation"
    ELSE IF isFoodQuestion(w) THEN "food"
    ELSE IF isMotivationRequest(w) THEN "motivation"
    ELSE IF isProgressCheck(w) THEN "progress"
    ELSE "general"

intent(w) ==
    IF isMetaFeedback(w) THEN "meta_feedback"
    ELSE IF isNumbersRequest(w) /\ isMotivationRequest(w) THEN "motivation"
    ELSE IF isNumbersRequest(w) THEN "numbers"
    ELSE IF isFoodQuestion(w) THEN "food"
    ELSE IF isMotivationRequest(w) THEN "motivation"
    ELSE IF isProgressCheck(w) THEN "progress"
    ELSE "general"

\* ------------------------------------------------------------------ on track

\* steps7dAvg ? steps >= steps7dAvg * 0.8 : steps >= 6000, steps being known:
\* an average of 0 is no average.
movementOk(m) ==
    IF Known(m.steps)
    THEN (IF Known(m.steps7dAvg) /\ Val(m.steps7dAvg) # 0
          THEN 10 * Val(m.steps) >= 8 * Val(m.steps7dAvg)
          ELSE Val(m.steps) >= 6000)
    ELSE TRUE

\* Sleep is in tenths of an hour: 6.5 h is 65.
sleepOk(m) == IF Known(m.sleepHours) THEN Val(m.sleepHours) >= 65 ELSE TRUE

nutritionOk(m) == IF m.hasAnyNutritionToday THEN ~m.proteinBehindPace ELSE TRUE

trainingOk(m) ==
    IF Known(m.workoutMinutes) \/ Known(m.workoutCount) THEN TRUE
    ELSE IF Known(m.steps) THEN Val(m.steps) >= 10000 ELSE TRUE

\* [movementOk, sleepOk, nutritionOk, trainingOk].filter(Boolean).length
Passed(m) ==
    Cardinality({ c \in {"movement", "sleep", "nutrition", "training"} :
        CASE c = "movement" -> movementOk(m)
          [] c = "sleep" -> sleepOk(m)
          [] c = "nutrition" -> nutritionOk(m)
          [] c = "training" -> trainingOk(m) })

\* Mutant: two passing sub-checks are enough.
onTrackOfTwo(m) == Passed(m) >= 2

onTrack(m) == Passed(m) >= 3

\* rawPreferences?.tone, kept only when "warm" or "sharp".
tonePreference(in) ==
    IF in.tone \in {"warm", "sharp"} THEN in.tone ELSE "neutral"

\* --------------------------------------------------- pressure, pop culture

basePressure(pressurePreference) ==
    IF pressurePreference = 1 THEN "low"
    ELSE IF pressurePreference = 3 THEN "high"
    ELSE "medium"

\* Mutant: on track, a high pressure stays high.
effectivePressureKeepingHigh(m, memories, w) ==
    LET base == basePressure(m.pressurePreference)
        eased == IF memories.last_feedback = Some("too_much_pressure")
                 THEN (IF base = "high" THEN "medium" ELSE "low")
                 ELSE base
    IN  IF \/ intent(w) \in {"numbers", "meta_feedback"}
           \/ onTrack(m) /\ intent(w) # "motivation"
        THEN "low"
        ELSE eased

effectivePressure(m, memories, w) ==
    LET base == basePressure(m.pressurePreference)
        eased == IF memories.last_feedback = Some("too_much_pressure")
                 THEN (IF base = "high" THEN "medium" ELSE "low")
                 ELSE base
    IN  IF \/ intent(w) \in {"numbers", "meta_feedback"}
           \/ onTrack(m) /\ intent(w) # "motivation"
        THEN "low"
        ELSE IF onTrack(m) /\ eased = "high" THEN "medium"
        ELSE eased

LowMoodWords == {"tired", "exhausted", "stressed", "anxious", "pain", "hurt",
                 "sick", "rough", "meh", "down", "depressed"}
lowMood(w) == Has(w, LowMoodWords)

\* !lowMood && (intent === "motivation" || intent === "progress"): what is
\* evaluated before the tone and the pressure are looked at.
PopCultureFits(w) == ~lowMood(w) /\ intent(w) \in {"motivation", "progress"}

\* The first copy reads effectivePressure above its `let`, when the tone is
\* not sharp: with block scoping kept the read throws.
PopCultureThrows(handler, w, tone) ==
    handler = "first" /\ PopCultureFits(w) /\ tone # "sharp"

\* The conjuncts before Math.random(): pressure is the resolved effective
\* pressure in the second copy; in the first copy lowered to var the
\* variable still holds undefined, which is not "low".
PopCultureOpen(handler, w, tone, pressure) ==
    /\ PopCultureFits(w)
    /\ \/ tone = "sharp"
       \/ IF handler = "second" THEN pressure # "low" ELSE TRUE

\* chance is Math.random() < 0.35.
allowPopCulture(handler, w, tone, pressure, chance) ==
    PopCultureOpen(handler, w, tone, pressure) /\ chance

\* The locals the prompt and the debug footer are built from.
Locals(in, m, t, memories, handler, chance) ==
    [ metrics         |-> m,
      effectivePressure |-> effectivePressure(m, memories, in.question.w),
      allowPopCulture |-> allowPopCulture(handler, in.question.w,
                              tonePreference(in),
                              effectivePressure(m, memories, in.question.w),
                              chance),
      movementOk      |-> movementOk(m),
      onTrack         |-> onTrack(m),
      intent          |-> intent(in.question.w),
      readinessHint   |-> readinessHint(m),
      localHour       |-> localHour(m, t),
      proteinPerMealG |-> proteinPerMealG(m, localHour(m, t)) ]

\* ------------------------------------------------------- response sanitizer

\* A text is a sequence of chunks.  The chunks ".", "!", "?" are sentence
\* marks, " " and "\n" are white space; every other chunk is a run of other
\* characters, never split.
IsWs(c) == c \in {" ", "\n"}

RECURSIVE LTrim(_)
LTrim(t) == IF t # <<>> /\ IsWs(Head(t)) THEN LTrim(Tail(t)) ELSE t

RECURSIVE RTrim(_)
RTrim(t) ==
    IF t # <<>> /\ IsWs(t[Len(t)]) THEN RTrim(SubSeq(t, 1, Len(t) - 1)) ELSE t

\* String.prototype.trim
TrimText(t) == RTrim(LTrim(t))

RECURSIVE SkipWs(_, _)
\* The first index from i on that holds no white space.
SkipWs(t, i) == IF i <= Len(t) /\ IsWs(t[i]) THEN SkipWs(t, i + 1) ELSE i

RECURSIVE SplitFrom(_, _, _, _)
SplitFrom(t, i, cur, marks) ==
    LET done == IF cur = <<>> THEN <<>> ELSE <<cur>>
    IN  IF i > Len(t) THEN done
        ELSE IF IsWs(t[i]) /\ i > 1 /\ t[i - 1] \in marks
        THEN done \o SplitFrom(t, SkipWs(t, i), <<>>, marks)
        ELSE SplitFrom(t, i + 1, Append(cur, t[i]), marks)

\* t.split(/(?<=[marks])\s+/).filter(Boolean)
SplitAfter(t, marks) == SplitFrom(t, 1, <<>>, marks)

RECURSIVE JoinText(_, _)
\* parts.join(sep) on texts.
JoinText(parts, sep) ==
    IF parts = <<>> THEN <<>>
    ELSE IF Len(parts) = 1 THEN parts[1]
    ELSE parts[1] \o <<sep>> \o JoinText(Tail(parts), sep)

FirstTwo(parts) == SubSeq(parts, 1, IF Len(parts) < 2 THEN Len(parts) ELSE 2)

\* /\?\s*$/.test(t)
EndsWithQuestionMark(t) == RTrim(t) # <<>> /\ RTrim(t)[Len(RTrim(t))] = "?"

\* t.replace(/\?\s*$/g, "")
DropTrailingQuestionMark(t) ==
    IF EndsWithQuestionMark(t) THEN SubSeq(RTrim(t), 1, Len(RTrim(t)) - 1)
    ELSE t

\* if (!userAskedAQuestion) { ... }: drop the sentences that end with "?",
\* keep the text when nothing is left, then strip one trailing "?".
dropQuestions(insight) ==
    LET parts == SplitAfter(insight, {".", "!", "?"})
        kept == SelectSeq(parts, LAMBDA q : ~EndsWithQuestionMark(TrimText(q)))
        joined == TrimText(IF kept # <<>> THEN JoinText(kept, " ") ELSE insight)
    IN  TrimText(DropTrailingQuestionMark(joined))

\* Length of a string of digits and the like, chunk by chunk, with every run
\* of white space counted once: insight.replace(/\s+/g, " ").length
RECURSIVE CollapsedLen(_, _)
CollapsedLen(t, i) ==
    IF i > Len(t) THEN 0
    ELSE IF IsWs(t[i])
    THEN (IF i > 1 /\ IsWs(t[i - 1]) THEN 0 ELSE 1) + CollapsedLen(t, i + 1)
    ELSE Len(t[i]) + CollapsedLen(t, i + 1)

PivotWords == {"but hey", "but seriously", "just remember", "remember",
               "at least", "seriously", "in all seriousness"}

RECURSIVE CutAtPivot(_)
\* .replace(/\b(but hey|...)\b[\s\S]*/i, ""): the text up to the first pivot.
CutAtPivot(t) ==
    IF t = <<>> \/ Head(t) \in PivotWords THEN <<>>
    ELSE <<Head(t)>> \o CutAtPivot(Tail(t))

\* Number.prototype.toLocaleString() of a whole number below a million.
Locale(n) ==
    IF n < 1000 THEN ToString(n)
    ELSE ToString(n \div 1000) \o ","
         \o (IF n % 1000 < 10 THEN "00" ELSE IF n % 1000 < 100 THEN "0" ELSE "")
         \o ToString(n % 1000)

Abs(n) == IF n < 0 THEN -n ELSE n

\* burnedSoFar - eatenSoFar when both are known.
netDeficitSoFar(m) ==
    IF Known(m.totalCaloriesBurned) /\ Known(m.dietaryCalories)
    THEN Some(Val(m.totalCaloriesBurned) - Val(m.dietaryCalories))
    ELSE Absent

roastDetail(m) ==
    LET deficit == netDeficitSoFar(m)
        parts ==
            (IF Known(m.steps)
             THEN <<"you're at ~" \o Locale(Val(m.steps)) \o " steps">>
             ELSE <<>>)
            \o (IF Known(deficit)
                THEN <<"a ~" \o Locale(Abs(Val(deficit))) \o " kcal "
                       \o (IF Val(deficit) >= 0 THEN "deficit" ELSE "surplus")>>
                ELSE <<>>)
            \o (IF Known(m.proteinRemainingG) /\ Known(m.dietaryProteinG)
                THEN <<ToString(Val(m.proteinRemainingG))
                       \o "g protein left (you're at "
                       \o ToString(Val(m.dietaryProteinG)) \o "g)">>
                ELSE <<>>)
    IN  IF parts # <<>> THEN Join(parts, ", ") ELSE "today"

\* `Let's be real. ${detail} -- and you're still acting surprised ...`
roastTemplate(m) ==
    <<"Let's be real", ".", " ",
      roastDetail(m) \o " -- and you're still acting surprised you feel cooked",
      ".">>

Openers == {"alright", "okay", "you've", "you have", "you are", "you had",
            "you hit", "you've got"}
StrippedOpeners == {"you've got", "you've been", "you have", "you are",
                    "you had", "you hit"}

\* Drop t[1] when it is in words, with the white space after it.
DropLead(t, words) ==
    IF t # <<>> /\ Head(t) \in words THEN LTrim(Tail(t)) ELSE t

\* The two replace calls that strip a template opener.
stripOpeners(t) ==
    LET a == LTrim(t)
        b == IF a # <<>> /\ Head(a) \in {"alright", "okay"}
             THEN DropLead(DropLead(DropLead(LTrim(Tail(a)), {",", ":"}),
                                    {"here goes"}), {":"})
             ELSE t
        c == LTrim(b)
    IN  IF c # <<>> /\ Head(c) \in StrippedOpeners
        THEN DropLead(LTrim(Tail(c)), {":", ",", "--", "-"})
        ELSE b

RECURSIVE SplitLines(_, _)
\* insight.split(/\n+/).map(l => l.trim()).filter(Boolean)
SplitLines(t, cur) ==
    LET done == IF TrimText(cur) = <<>> THEN <<>> ELSE <<TrimText(cur)>>
    IN  IF t = <<>> THEN done
        ELSE IF Head(t) = "\n" THEN done \o SplitLines(Tail(t), <<>>)
        ELSE SplitLines(Tail(t), Append(cur, Head(t)))

\* ROAST MODE: one punch only.  A text that is only a preamble is shorter
\* than 35 characters, so tooShort || preambleOnly is tooShort.
roastMode(insight, m) ==
    LET cut == TrimText(DropTrailingQuestionMark(CutAtPivot(insight)))
        tooShort == CollapsedLen(TrimText(cut), 1) < 35
        fresh == IF tooShort THEN roastTemplate(m) ELSE cut
        led == IF LTrim(fresh) # <<>> /\ Head(LTrim(fresh)) \in Openers
               THEN <<"Let's be real", ".", " ">> \o TrimText(stripOpeners(fresh))
               ELSE fresh
        lines == JoinText(FirstTwo(SplitLines(led, <<>>)), "\n")
    IN  TrimText(JoinText(FirstTwo(SplitAfter(lines, {".", "!"})), " "))

ReactionWords == {"meh", "mid", "boo", "nah", "eh", "hmm", "ok", "okay",
                  "lol", "lmao", "haha", "ha", "nice", "good one", "fair",
                  "touche", "you got me", "got me", "dang", "oof"}
NegativeWords == {"meh", "mid", "nah", "boo", "eh"}
RoastWords == {"roast", "olympic", "marathon", "snack", "steps", "buffet",
               "training", "gym", "walk"}

\* /\?\s*$/.test(question.trim())
userAskedAQuestion(w) == EndsWithQuestionMark(w)

isRoastRequest(w, tone) ==
    \/ Has(w, {"roast me"})
    \/ Has(w, {"do your worst", "kick my ass", "be harsh"}) /\ tone = "sharp"

\* The trimmed question is one reaction word.
isReactionMessage(w) ==
    Len(TrimText(w)) = 1 /\ TrimText(w)[1] \in ReactionWords

RECURSIVE lastAssistantText(_)
\* The text of the most recent assistant turn, "" when there is none.
lastAssistantText(chatHistory) ==
    IF chatHistory = <<>> THEN <<>>
    ELSE IF chatHistory[Len(chatHistory)].role = "assistant"
    THEN chatHistory[Len(chatHistory)].text
    ELSE lastAssistantText(SubSeq(chatHistory, 1, Len(chatHistory) - 1))

\* Mutant: the reply does not look at the last assistant turn.
reactionReplyPlain(w, last) ==
    IF Has(TrimText(w), NegativeWords) THEN "Fair." ELSE "That tracks."

reactionReply(w, last) ==
    LET lastWasRoast == Has(last, RoastWords)
        neg == Has(TrimText(w), NegativeWords)
    IN  IF lastWasRoast
        THEN (IF neg THEN "Fair. That one was mid. I'll do better."
              ELSE "That tracks.")
        ELSE (IF neg THEN "Fair." ELSE "That tracks.")

NoResponse == <<"No response", ".">>

\* Everything after the completion call returned: the 200 body.  content is
\* Absent when the completion holds no message content.
sanitized(in, m, content) ==
    LET w == in.question.w
        tone == tonePreference(in)
        insight == IF content = Absent THEN NoResponse
                   ELSE TrimText(Val(content))
        last == lastAssistantText(in.chatHistory)
        roasted == IF isRoastRequest(w, tone)
                      \/ (intent(w) = "motivation" /\ tone = "sharp")
                   THEN roastMode(insight, m)
                   ELSE insight
    IN  IF isReactionMessage(w) /\ last # <<>>
        THEN <<reactionReply(w, last)>>
        ELSE IF ~userAskedAQuestion(w) THEN dropQuestions(roasted)
        ELSE roasted

\* The first copy's only step after the completion: the protein range is
\* replaced by the per-meal number, "50g" when there is none.
RangePhrases == {"25-40g", "25 to 40g", "25-40 grams", "25 to 40 grams"}

sanitizedFirst(content, perMealG) ==
    LET insight == IF content = Absent THEN NoResponse
                   ELSE TrimText(Val(content))
        perMeal == IF Known(perMealG) THEN ToString(Val(perMealG)) \o "g"
                   ELSE "50g"
    IN  [i \in 1..Len(insight) |->
            IF insight[i] \in RangePhrases THEN perMeal ELSE insight[i]]

\* The 200 body before the footer, by the copy that serves.
Insight(handler, in, m, locals, content) ==
    IF handler = "second" THEN sanitized(in, m, content)
    ELSE sanitizedFirst(content, locals.proteinPerMealG)

\* ------------------------------------------------------------ memory update

\* Mutant: the streak grows only above 140 g.
updatesAbove(in, m, memories) ==
    <<[key |-> "days_active", value |-> daysActive(memories) + 1]>>
    \o (IF Known(m.dietaryProteinG) /\ Val(m.dietaryProteinG) > 140
        THEN <<[key |-> "protein_streak_days",
                value |-> proteinStreak(memories) + 1]>>
        ELSE IF proteinStreak(memories) > 0
        THEN <<[key |-> "protein_streak_days", value |-> 0]>>
        ELSE <<>>)
    \o (IF in.feedback # "none"
        THEN <<[key |-> "last_feedback",
                value |-> IF in.feedback = "negative"
                          THEN "too_much_pressure" ELSE "good"]>>
        ELSE <<>>)

\* The upserts the updater makes, in Object.entries order, computed from the
\* snapshot when the updater is started.
updates(in, m, memories) ==
    <<[key |-> "days_active", value |-> daysActive(memories) + 1]>>
    \o (IF Known(m.dietaryProteinG) /\ Val(m.dietaryProteinG) >= 140
        THEN <<[key |-> "protein_streak_days",
                value |-> proteinStreak(memories) + 1]>>
        ELSE IF proteinStreak(memories) > 0
        THEN <<[key |-> "protein_streak_days", value |-> 0]>>
        ELSE <<>>)
    \o (IF in.feedback # "none"
        THEN <<[key |-> "last_feedback",
                value |-> IF in.feedback = "negative"
                          THEN "too_much_pressure" ELSE "good"]>>
        ELSE <<>>)

\* (async () => { if (!supabase) return; ... })()
startedWrites(supabase, in, m, memories) ==
    IF supabase THEN updates(in, m, memories) ELSE <<>>

\* upsert({ user_id, key, value }, { onConflict: 'user_id,key' })
Upsert(rows, u) ==
    [rows EXCEPT ![u.key] = Some(u.value)]

\* ---------------------------------------------------------------- requests

\* The file holds the handler twice.  env.handler says which copy serves:
\* "second" (lines 617-1191), or the first copy (lines 1-616), which reads
\* effectivePressure above its `let`: built with block scoping kept
\* ("first", the read throws) or lowered to var ("first-var", the read
\* gives undefined).
InitWith(handlers) ==
    /\ env \in [apiKey : BOOLEAN, supabase : BOOLEAN, debug : BOOLEAN,
                handler : handlers]
    /\ now = 0
    /\ rateMap = [u \in Users |-> Absent]
    /\ store = [u \in Users |-> NoMemory]
    /\ pc = [s \in Slots |-> "idle"]
    /\ inp = [s \in Slots |-> NoInput]
    /\ mem = [s \in Slots |-> NoMemory]
    /\ resp = [s \in Slots |-> Absent]
    /\ writes = [s \in Slots |-> <<>>]
    /\ trace = [s \in Slots |-> {}]
    /\ gate = [s \in Slots |-> Absent]
    /\ win = [u \in Users |-> Absent]
    /\ hist = [u \in Users |-> [started |-> 0, failed |-> FALSE]]
    /\ ctx = [s \in Slots |-> Absent]
    /\ calls = [s \in Slots |-> <<>>]

Init == InitWith({"second"})

\* POST is called: the credentials check, then `await req.json()`.
Arrive(s, in) ==
    /\ pc[s] = "idle"
    /\ inp' = [inp EXCEPT ![s] = in]
    /\ trace' = [trace EXCEPT ![s] = {"credentials"}]
    /\ IF ~env.apiKey
       THEN /\ pc' = [pc EXCEPT ![s] = "done"]
            /\ resp' = [resp EXCEPT ![s] = Response(500, <<MisconfiguredMsg>>)]
       ELSE /\ pc' = [pc EXCEPT ![s] = "json"]
            /\ UNCHANGED resp
    /\ UNCHANGED <<env, now, rateMap, store, mem, writes, gate, win, hist, ctx,
                   calls>>

\* From the memory snapshot to the next suspension: the updater is started,
\* then a shortcut answers or the completion call is made.
Continue(s, memories, stages) ==
    LET in == inp[s]
        m == Normalize(in)
        w == in.question.w
        footer == debugFooter(env.debug, m, memories)
        started == startedWrites(env.supabase, in, m, memories)
        ran == stages \cup (IF env.supabase THEN {"update"} ELSE {})
    IN  /\ mem' = [mem EXCEPT ![s] = memories]
        /\ writes' = [writes EXCEPT ![s] = started]
        /\ hist' = IF env.supabase /\ hist[in.userId].started <= MaxCounter
                   THEN [hist EXCEPT ![in.userId].started = @ + 1]
                   ELSE hist
        /\ \E chance \in
                 IF PopCultureOpen(env.handler, w, tonePreference(in),
                                   effectivePressure(m, memories, w))
                 THEN BOOLEAN ELSE {FALSE} :
              ctx' = [ctx EXCEPT ![s] =
                  Some(Locals(in, m, now, memories, env.handler, chance))]
        /\ IF ProfileShortcut(w, m)
           THEN /\ resp' = [resp EXCEPT ![s] =
                      Response(200, Plus(<<profileReply(env.debug, m)>>, footer))]
                /\ pc' = [pc EXCEPT ![s] = "done"]
                /\ trace' = [trace EXCEPT ![s] = ran \cup {"profile"}]
                /\ UNCHANGED calls
           ELSE IF RecoveryShortcut(w, m)
           THEN /\ resp' = [resp EXCEPT ![s] =
                      Response(200, Plus(<<recoveryReply(m)>>, footer))]
                /\ pc' = [pc EXCEPT ![s] = "done"]
                /\ trace' = [trace EXCEPT ![s] = ran \cup {"recovery"}]
                /\ UNCHANGED calls
           ELSE /\ pc' = [pc EXCEPT ![s] = "completion"]
                /\ trace' = [trace EXCEPT ![s] = ran \cup {"completion"}]
                /\ calls' = [calls EXCEPT ![s] = Append(@, "pending")]
                /\ UNCHANGED resp

\* The window the limiter is meant to keep, recorded beside the code's entry:
\* a request opens a window when its user has none or the last one is over.
\* passed counts the requests that reached the limiter in the window,
\* admitted those of them that were not answered 429.
Windowed(w, t, limited) ==
    LET first == w = Absent \/ t > Val(w).start + RATE_WINDOW_MS
    IN  Some([start    |-> IF first THEN t ELSE Val(w).start,
              passed   |-> IF first THEN 1 ELSE Val(w).passed + 1,
              admitted |-> (IF first THEN 0 ELSE Val(w).admitted)
                           + (IF limited THEN 0 ELSE 1)])

\* Where a request stands in its window: the one that opened it, one of the
\* 2nd to the RATE_MAX-th, or a later one.
Place(passed) ==
    IF passed = 1 THEN "first"
    ELSE IF passed <= RATE_MAX THEN "within"
    ELSE "over"

\* req.json() has resolved: validation, the rate limiter, the metric parsing
\* and, with a memory store, the select; without one, on to Continue.
Gate(s) ==
    LET in == inp[s]
        u == in.userId
        stages == trace[s] \cup {"validate"}
    IN  /\ pc[s] = "json"
        /\ IF InvalidRequest(in)
           THEN /\ resp' = [resp EXCEPT ![s] = Response(400, <<InvalidMsg>>)]
                /\ pc' = [pc EXCEPT ![s] = "done"]
                /\ trace' = [trace EXCEPT ![s] = stages]
                /\ UNCHANGED <<rateMap, mem, writes, gate, win, hist, ctx,
                               calls>>
           ELSE LET limited == RateLimited(rateMap[u], now)
                    counted == Counted(rateMap[u], now)
                    w == Windowed(win[u], now, limited)
                IN  /\ rateMap' = [rateMap EXCEPT ![u] = counted]
                    /\ win' = [win EXCEPT ![u] = w]
                    /\ gate' = [gate EXCEPT ![s] = Some(Place(Val(w).passed))]
                    /\ IF limited
                       THEN /\ resp' = [resp EXCEPT ![s] =
                                  Response(429, <<RateLimitMsg>>)]
                            /\ pc' = [pc EXCEPT ![s] = "done"]
                            /\ trace' = [trace EXCEPT ![s] = stages \cup {"limit"}]
                            /\ UNCHANGED <<mem, writes, hist, ctx, calls>>
                       ELSE IF PopCultureThrows(env.handler, in.question.w,
                                                tonePreference(in))
                       THEN /\ resp' = [resp EXCEPT ![s] =
                                  Response(500, <<FailedMsg>>)]
                            /\ pc' = [pc EXCEPT ![s] = "done"]
                            /\ trace' = [trace EXCEPT ![s] =
                                   stages \cup {"limit", "normalize"}]
                            /\ UNCHANGED <<mem, writes, hist, ctx, calls>>
                       ELSE IF env.supabase
                       THEN /\ pc' = [pc EXCEPT ![s] = "memread"]
                            /\ trace' = [trace EXCEPT ![s] =
                                   stages \cup {"limit", "normalize", "memread"}]
                            /\ UNCHANGED <<resp, mem, writes, hist, ctx,
                                           calls>>
                       ELSE Continue(s, NoMemory,
                                     stages \cup {"limit", "normalize"})
        /\ UNCHANGED <<env, now, store, inp>>

\* Mutant: a select that failed ends the request with the generic 500.
MemReadThrowing(s, ok) ==
    /\ pc[s] = "memread"
    /\ IF ok
       THEN Continue(s, store[inp[s].userId], trace[s])
       ELSE /\ resp' = [resp EXCEPT ![s] = Response(500, <<FailedMsg>>)]
            /\ pc' = [pc EXCEPT ![s] = "done"]
            /\ trace' = [trace EXCEPT ![s] = @ \cup {"readfailed"}]
            /\ UNCHANGED <<mem, writes, hist, ctx, calls>>
    /\ UNCHANGED <<env, now, rateMap, store, inp, gate, win>>

\* The select has returned: rows, or an error (logged) and no rows.
MemRead(s, ok) ==
    /\ pc[s] = "memread"
    /\ Continue(s, IF ok THEN store[inp[s].userId] ELSE NoMemory,
                trace[s] \cup (IF ok THEN {} ELSE {"readfailed"}))
    /\ UNCHANGED <<env, now, rateMap, store, inp, gate, win>>

\* What openai.chat.completions.create can come back with.
CompletionText(text) == [t |-> "text", content |-> Some(text)]
CompletionEmpty == [t |-> "text", content |-> Absent]
CompletionError == [t |-> "error"]

\* What a call came back with: "error", "empty" (no message content) or
\* "text".
Outcome(result) ==
    IF result.t = "error" THEN "error"
    ELSE IF result.content = Absent THEN "empty"
    ELSE "text"

\* Mutant: the response is computed only once the updater has finished.
CompleteAwaitingUpdater(s, result) ==
    LET in == inp[s]
        m == Normalize(in)
    IN  /\ pc[s] = "completion"
        /\ writes[s] = <<>>
        /\ pc' = [pc EXCEPT ![s] = "done"]
        /\ calls' = [calls EXCEPT ![s] =
               SubSeq(@, 1, Len(@) - 1) \o <<Outcome(result)>>]
        /\ IF result.t = "error"
           THEN /\ resp' = [resp EXCEPT ![s] = Response(500, <<FailedMsg>>)]
                /\ UNCHANGED trace
           ELSE /\ resp' = [resp EXCEPT ![s] =
                      Response(200, Plus(Insight(env.handler, in, m,
                                                 Val(ctx[s]), result.content),
                                         debugFooter(env.debug, m, mem[s])))]
                /\ trace' = [trace EXCEPT ![s] = @ \cup {"sanitize"}]
        /\ UNCHANGED <<env, now, rateMap, store, inp, mem, writes, gate, win,
                       hist, ctx>>

\* Mutant: a call that failed is made once more.
CompleteRetrying(s, result) ==
    LET in == inp[s]
        m == Normalize(in)
        ended == SubSeq(calls[s], 1, Len(calls[s]) - 1) \o <<Outcome(result)>>
    IN  /\ pc[s] = "completion"
        /\ IF result.t = "error" /\ Len(calls[s]) < 2
           THEN /\ calls' = [calls EXCEPT ![s] = Append(ended, "pending")]
                /\ UNCHANGED <<pc, resp, trace>>
           ELSE IF result.t = "error"
           THEN /\ calls' = [calls EXCEPT ![s] = ended]
                /\ pc' = [pc EXCEPT ![s] = "done"]
                /\ resp' = [resp EXCEPT ![s] = Response(500, <<FailedMsg>>)]
                /\ UNCHANGED trace
           ELSE /\ calls' = [calls EXCEPT ![s] = ended]
                /\ pc' = [pc EXCEPT ![s] = "done"]
                /\ resp' = [resp EXCEPT ![s] =
                      Response(200, Plus(Insight(env.handler, in, m,
                                                 Val(ctx[s]), result.content),
                                         debugFooter(env.debug, m, mem[s])))]
                /\ trace' = [trace EXCEPT ![s] = @ \cup {"sanitize"}]
        /\ UNCHANGED <<env, now, rateMap, store, inp, mem, writes, gate, win,
                       hist, ctx>>

\* The completion call has returned or thrown.
Complete(s, result) ==
    LET in == inp[s]
        m == Normalize(in)
    IN  /\ pc[s] = "completion"
        /\ pc' = [pc EXCEPT ![s] = "done"]
        /\ calls' = [calls EXCEPT ![s] =
               SubSeq(@, 1, Len(@) - 1) \o <<Outcome(result)>>]
        /\ IF result.t = "error"
           THEN /\ resp' = [resp EXCEPT ![s] = Response(500, <<FailedMsg>>)]
                /\ UNCHANGED trace
           ELSE /\ resp' = [resp EXCEPT ![s] =
                      Response(200, Plus(Insight(env.handler, in, m,
                                                 Val(ctx[s]), result.content),
                                         debugFooter(env.debug, m, mem[s])))]
                /\ trace' = [trace EXCEPT ![s] = @ \cup {"sanitize"}]
        /\ UNCHANGED <<env, now, rateMap, store, inp, mem, writes, gate, win,
                       hist, ctx>>

\* One upsert of a request's updater ends: done, answered with an error (the
\* loop goes on) or thrown (the catch ends the loop).
Write(s, outcome) ==
    LET u == inp[s].userId
        up == Head(writes[s])
    IN  /\ writes[s] # <<>>
        /\ IF outcome = "ok" /\ up.key # "last_feedback"
           THEN up.value <= MaxCounter ELSE TRUE
        /\ store' = IF outcome = "ok"
                    THEN [store EXCEPT ![u] = Upsert(@, up)]
                    ELSE store
        /\ writes' = [writes EXCEPT ![s] =
               IF outcome = "throw" THEN <<>> ELSE Tail(@)]
        /\ trace' = [trace EXCEPT ![s] =
               @ \cup (IF outcome = "ok" THEN {"written"} ELSE {})]
        /\ hist' = IF outcome = "ok" THEN hist
                   ELSE [hist EXCEPT ![u].failed = TRUE]
        /\ UNCHANGED <<env, now, rateMap, pc, inp, mem, resp, gate, win, ctx,
                       calls>>

\* The response was sent and the updater has ended: the slot is free again.
Recycle(s) ==
    /\ pc[s] = "done"
    /\ writes[s] = <<>>
    /\ pc' = [pc EXCEPT ![s] = "idle"]
    /\ inp' = [inp EXCEPT ![s] = NoInput]
    /\ mem' = [mem EXCEPT ![s] = NoMemory]
    /\ resp' = [resp EXCEPT ![s] = Absent]
    /\ trace' = [trace EXCEPT ![s] = {}]
    /\ gate' = [gate EXCEPT ![s] = Absent]
    /\ ctx' = [ctx EXCEPT ![s] = Absent]
    /\ calls' = [calls EXCEPT ![s] = <<>>]
    /\ UNCHANGED <<env, now, rateMap, store, writes, win, hist>>

\* Time passes.
Tick ==
    /\ now < MaxTicks * TickMs
    /\ now' = now + TickMs
    /\ UNCHANGED <<env, rateMap, store, pc, inp, mem, resp, writes, trace,
                   gate, win, hist, ctx, calls>>

\* ------------------------------------------------------------------ inputs

\* A request body with every optional field missing.
Request(u, q) ==
    [ userId |-> u, question |-> q, chatHistory |-> <<>>, tone |-> "",
      feedback |-> "none",
      steps |-> RawNull, totalCaloriesBurned |-> RawNull,
      dietaryEnergyConsumed |-> RawNull, dietaryCalories |-> RawNull,
      sleepHours |-> RawNull, restingHeartRate |-> RawNull,
      hrvSdnn |-> RawNull, dietaryProteinG |-> RawNull,
      proteinRemainingG |-> RawNull,
      age |-> RawNull, heightCm |-> RawNull, weightKg |-> RawNull,
      sleepAvg7d |-> RawNull, rhrAvg7d |-> RawNull, hrvAvg7d |-> RawNull,
      tzOffsetMinutes |-> RawNull,
      steps7dAvg |-> RawNull, workoutMinutes |-> RawNull,
      workoutCount |-> RawNull, hasAnyNutritionToday |-> RawNull,
      proteinBehindPace |-> RawNull, pressure |-> RawNull ]

WithProfile(b) ==
    [b EXCEPT !.heightCm = RawNum(17000), !.weightKg = RawNum(70),
              !.age = RawNum(30)]

QPlain == Question(<<"how", "was", "my", "day">>)
QProfile == Question(<<"tell me", "my", "height">>)
QRecovery == Question(<<"how", "was", "my", "sleep", "?">>)
QBoth == Question(<<"what is", "my", "weight", "and", "sleep">>)
QNotProfile == Question(<<"height", "tell me">>)
QBlank == Question(<<" ">>)

\* The bodies of Spec: a plain question, a body that makes the updater write
\* all three rows, a body that takes a shortcut and an invalid body.
Inputs ==
    { Request("u1", QPlain),
      [Request("u1", QPlain) EXCEPT !.dietaryProteinG = RawNum(150),
                                    !.feedback = "negative"],
      WithProfile(Request("u1", QProfile)),
      Request(NoUser, QPlain) }

\* The bodies of SpecRate and SpecSerial: one user, the least that reaches
\* every response.
RateInputs ==
    { Request("u1", QPlain), WithProfile(Request("u1", QProfile)),
      Request(NoUser, QPlain) }

SerialInputs ==
    RateInputs \cup { Request("u1", QRecovery), Request("u1", QProfile),
                      Request("u1", QBlank), Request("u1", NoQuestion),
                      [Request("u1", QPlain) EXCEPT
                          !.dietaryProteinG = RawNum(150),
                          !.feedback = "negative"] }

\* The bodies of SpecPipe: every combination of the questions with the
\* profile and recovery fields absent, zero, known or not a number.
PipeInputs ==
    { [Request("u1", q) EXCEPT
          !.heightCm = f[1], !.weightKg = f[2], !.age = f[3],
          !.sleepHours = f[4], !.restingHeartRate = f[5], !.hrvSdnn = f[6],
          !.sleepAvg7d = f[7], !.rhrAvg7d = f[8]] :
      q \in {QPlain, QProfile, QRecovery, QBoth, QNotProfile},
      f \in {RawNull, RawNum(17000)} \X {RawNull, RawNum(70)}
            \X {RawNull, RawNum(30), RawJunk}
            \X {RawNull, RawNum(0), RawNum(58), RawNum(75)}
            \X {RawNull, RawNum(0), RawNum(62)}
            \X {RawNull, RawNum(0), RawNum(45)}
            \X {RawNull, RawNum(82)} \X {RawNull, RawNum(55)} }

\* The bodies of SpecFn, family by family: raw values of every kind; sleep,
\* heart rate and HRV around the readiness thresholds; remaining protein at
\* every hour of the day; questions with every combination of intent cues.
RawKinds ==
    {RawNull, RawNum(30), RawNaN, RawInfinity, RawNumStr(30), RawEmptyStr,
     RawJunk}

KindInputs ==
    { [Request("u1", QPlain) EXCEPT
          !.age = f[1], !.proteinRemainingG = f[2], !.sleepHours = f[3]] :
      f \in RawKinds \X RawKinds \X RawKinds }

ReadinessInputs ==
    { [Request("u1", QPlain) EXCEPT
          !.sleepHours = f[1], !.restingHeartRate = f[2], !.rhrAvg7d = f[3],
          !.hrvSdnn = f[4], !.hrvAvg7d = f[5]] :
      f \in {RawNull, RawNum(59), RawNum(60), RawNum(69), RawNum(70),
             RawNum(80)}
            \X {RawNull, RawNum(60)}
            \X {RawNull, RawNum(54), RawNum(55), RawNum(59), RawNum(60)}
            \X {RawNull, RawNum(0), RawNum(40)}
            \X {RawNull, RawNum(40), RawNum(41), RawNum(49), RawNum(50)} }

HourOffsets == {RawNull} \cup {RawNum(-60 * h) : h \in 0..23}

ProteinInputs ==
    { [Request("u1", QPlain) EXCEPT
          !.proteinRemainingG = f[1], !.tzOffsetMinutes = f[2]] :
      f \in {RawNull, RawJunk, RawNum(-10), RawNum(0), RawNum(40),
             RawNum(74), RawNum(75), RawNum(110), RawNum(150), RawNum(250)}
            \X HourOffsets }

\* Steps around 80% of the average, 6000 and 10000, averages around 2000,
\* sleep around 6.5 h, the nutrition flags, workouts known or not.
OnTrackInputs ==
    { [Request("u1", QPlain) EXCEPT
          !.steps = f[1], !.steps7dAvg = f[2], !.sleepHours = f[3],
          !.hasAnyNutritionToday = f[4][1], !.proteinBehindPace = f[4][2],
          !.workoutMinutes = f[5][1], !.workoutCount = f[5][2]] :
      f \in {RawNull, RawNum(100), RawNum(900), RawNum(5999), RawNum(6000),
             RawNum(7999), RawNum(8000), RawNum(9999), RawNum(10000)}
            \X {RawNull, RawNum(0), RawNum(1000), RawNum(1999), RawNum(2000),
                RawNum(10000)}
            \X {RawNull, RawNum(64), RawNum(65)}
            \X ({RawNull, RawTrue} \X {RawNull, RawTrue})
            \X {<<RawNull, RawNull>>, <<RawNum(0), RawNull>>,
                <<RawNull, RawNum(1)>>} }

\* Heights from 150 cm to 190 cm, in 1/100 cm.
HeightInputs ==
    { [Request("u1", QPlain) EXCEPT !.heightCm = RawNum(15000 + 8 * k)] :
      k \in 0..500 }

RECURSIVE SeqOf(_)
\* The members of a set of strings, in some order.
SeqOf(S) ==
    IF S = {} THEN <<>>
    ELSE LET x == CHOOSE y \in S : TRUE IN <<x>> \o SeqOf(S \ {x})

CueWords ==
    {"feedback", "calories", "dinner", "roast me", "progress", "protein",
     "how much"}

IntentInputs ==
    { Request("u1", Question(<<"so">> \o SeqOf(c))) : c \in SUBSET CueWords }

FnInputs ==
    KindInputs \cup ReadinessInputs \cup ProteinInputs \cup IntentInputs
    \cup HeightInputs \cup OnTrackInputs

\* The bodies of SpecStreak: today's protein unknown, not a number, below,
\* at and above 140 g.
StreakInputs ==
    { [Request("u1", QPlain) EXCEPT !.dietaryProteinG = p] :
      p \in {RawNull, RawJunk, RawNum(139), RawNum(140), RawNum(150)} }

\* The bodies of SpecPressure: a question of every intent that matters and
\* one in a low mood, either tone, the pressure preference unset, 1, 2 or 3,
\* on track (no metrics) or not (100 steps), with or without negative
\* feedback.
QNumbers == Question(<<"my", "calories">>)
QMeta == Question(<<"feedback">>)
QMotivate == Question(<<"motivate", "me">>)
QProgress == Question(<<"my", "progress">>)
QTired == Question(<<"motivate", "me", "tired">>)

PressureInputs ==
    { [Request("u1", f[1]) EXCEPT
          !.tone = f[2], !.pressure = f[3], !.steps = f[4],
          !.feedback = f[5]] :
      f \in {QPlain, QNumbers, QMeta, QMotivate, QProgress, QTired}
            \X {"", "sharp"}
            \X {RawNull, RawNum(1), RawNum(2), RawNum(3)}
            \X {RawNull, RawNum(100)}
            \X {"none", "negative"} }

PressureCompletions ==
    { CompletionError, CompletionEmpty,
      CompletionText(<<"aim", "for", " ", "25-40g", ".">>) }

\* The bodies of SpecReaction: a negative and a neutral reaction, one with
\* white space around it and a message that only begins with one, over chat
\* histories without an assistant turn, with a plain or a roast turn last,
\* with a user turn after it, and with an empty assistant turn last.
Turn(role, text) == [role |-> role, text |-> text]

Histories ==
    { <<>>,
      <<Turn("user", <<"hi">>)>>,
      <<Turn("assistant", <<"nice">>)>>,
      <<Turn("assistant", <<"olympic", "snack">>)>>,
      <<Turn("assistant", <<"nice">>), Turn("user", <<"hi">>)>>,
      <<Turn("assistant", <<"olympic", "snack">>), Turn("assistant", <<>>)>> }

ReactionInputs ==
    { [Request("u1", Question(q)) EXCEPT !.chatHistory = h] :
      q \in {<<"meh">>, <<"lol">>, <<" ", "meh", " ">>, <<"meh", " ", "again">>},
      h \in Histories }

\* The bodies of SpecQuota: two users, an invalid question of the second
\* and a body without a user id.
QuotaInputs ==
    { Request("u1", QPlain), Request("u2", QPlain), Request("u2", QBlank),
      Request(NoUser, QPlain) }

\* The bodies of SpecText: a statement, a question, a roast request and a
\* reaction to an earlier reply.
QAsked == Question(<<"how", "was", "my", "day", "?">>)
QRoast == Question(<<"roast me">>)
QReaction == Question(<<"meh">>)

TextInputs ==
    { Request("u1", QPlain), Request("u1", QAsked), Request("u1", QRoast),
      [Request("u1", QReaction) EXCEPT
          !.chatHistory = <<[role |-> "assistant", text |-> <<"nice">>]>>] }

\* The completion texts of SpecText: every text of up to MaxLen chunks.
MaxLen == 5
Chunks == {"go", ".", "?", " "}

TextsOf(n) == UNION { [1..k -> Chunks] : k \in 0..n }

Texts == { CompletionText(t) : t \in TextsOf(MaxLen) }

Completions ==
    { CompletionError, CompletionEmpty,
      CompletionText(<<"nice", "work", ".">>),
      CompletionText(<<"nice", "work", ".", " ", "want", "more", "?">>) }

\* Requests of a user stop arriving once the user's entry counts cap.
MayArrive(in, cap) ==
    IF in.userId = NoUser THEN TRUE
    ELSE IF rateMap[in.userId] = Absent THEN TRUE
    ELSE Val(rateMap[in.userId]).count < cap

\* ---------------------------------------------------------- specifications

Next ==
    \/ \E s \in Slots, in \in Inputs : MayArrive(in, MaxCount) /\ Arrive(s, in)
    \/ \E s \in Slots : Gate(s)
    \/ \E s \in Slots, ok \in BOOLEAN : MemRead(s, ok)
    \/ \E s \in Slots, r \in Completions : Complete(s, r)
    \/ \E s \in Slots, o \in {"ok", "error", "throw"} : Write(s, o)
    \/ \E s \in Slots : Recycle(s)

Spec == Init /\ [][Next]_vars

\* The limiter in depth, on a server without a memory store (the limiter
\* runs before the store is touched): up to MaxOver requests beyond the
\* limit, in two concurrent slots, with the clock advancing.
InitRate == Init /\ env.apiKey /\ ~env.debug /\ ~env.supabase

NextRate ==
    \/ \E s \in Slots, in \in RateInputs :
          MayArrive(in, RATE_MAX + MaxOver) /\ Arrive(s, in)
    \/ \E s \in Slots : Gate(s)
    \/ \E s \in Slots, r \in {CompletionError, CompletionEmpty} : Complete(s, r)
    \/ \E s \in Slots : Recycle(s)
    \/ Tick

SpecRate == InitRate /\ [][NextRate]_vars

\* One request at a time, with the memory store, up to MaxOver requests
\* beyond the limit.
InitSerial == Init /\ ~env.debug

NextSerial ==
    \/ \E in \in SerialInputs :
          MayArrive(in, RATE_MAX + MaxOver) /\ Arrive("a", in)
    \/ Gate("a")
    \/ \E ok \in BOOLEAN : MemRead("a", ok)
    \/ \E r \in {CompletionError, CompletionEmpty} : Complete("a", r)
    \/ \E o \in {"ok", "error", "throw"} : Write("a", o)
    \/ Recycle("a")

SpecSerial == InitSerial /\ [][NextSerial]_vars

\* The same, with the scheduling the event loop gives: a completion call
\* settles (with a result or an error) and the handler awaiting it is
\* resumed.  Nothing is assumed of the store: an upsert may never return.
SpecSerialFair ==
    /\ InitSerial /\ [][NextSerial]_vars
    /\ WF_vars(\E r \in {CompletionError, CompletionEmpty} : Complete("a", r))

\* The same, when nothing is known of the completion service: every step of
\* the handler and of the store is taken in the end, the completion call
\* may never return.
SpecSerialHang ==
    /\ InitSerial /\ [][NextSerial]_vars
    /\ WF_vars(Gate("a"))
    /\ WF_vars(\E ok \in BOOLEAN : MemRead("a", ok))
    /\ WF_vars(\E o \in {"ok", "error", "throw"} : Write("a", o))

\* One request, over every body of PipeInputs.
InitPipe == Init /\ env.apiKey

NextPipe ==
    \/ pc["a"] = "idle" /\ \E in \in PipeInputs : Arrive("a", in)
    \/ Gate("a")
    \/ \E ok \in BOOLEAN : MemRead("a", ok)
    \/ \E r \in Completions : Complete("a", r)
    \/ \E o \in {"ok", "error", "throw"} : Write("a", o)

SpecPipe == InitPipe /\ [][NextPipe]_vars

\* One request, over every body of FnInputs: the functions of the body.
NextFn ==
    \/ pc["a"] = "idle" /\ \E in \in FnInputs : Arrive("a", in)
    \/ Gate("a")
    \/ \E ok \in BOOLEAN : MemRead("a", ok)
    \/ \E r \in {CompletionError, CompletionEmpty} : Complete("a", r)
    \/ \E o \in {"ok", "error", "throw"} : Write("a", o)

SpecFn == InitPipe /\ [][NextFn]_vars

\* Requests of one user one after the other on a server with a memory
\* store: the updater over snapshots left by earlier requests.
InitStreak == Init /\ env.apiKey /\ env.supabase /\ ~env.debug

NextStreak ==
    \/ \E in \in StreakInputs : MayArrive(in, MaxCounter + 1) /\ Arrive("a", in)
    \/ Gate("a")
    \/ \E ok \in BOOLEAN : MemRead("a", ok)
    \/ \E r \in {CompletionError, CompletionEmpty} : Complete("a", r)
    \/ \E o \in {"ok", "error", "throw"} : Write("a", o)
    \/ Recycle("a")

SpecStreak == InitStreak /\ [][NextStreak]_vars

\* Requests of one user one after the other: the effective pressure over
\* the feedback earlier requests left.
InitPressure == Init /\ env.apiKey /\ ~env.debug

NextPressure ==
    \/ \E in \in PressureInputs : MayArrive(in, MaxCount) /\ Arrive("a", in)
    \/ Gate("a")
    \/ \E ok \in BOOLEAN : MemRead("a", ok)
    \/ \E r \in PressureCompletions : Complete("a", r)
    \/ \E o \in {"ok", "error", "throw"} : Write("a", o)
    \/ Recycle("a")

SpecPressure == InitPressure /\ [][NextPressure]_vars

\* One request, served by either copy of the handler.
InitCopies ==
    InitWith({"second", "first", "first-var"}) /\ env.apiKey /\ ~env.debug

NextCopies ==
    \/ pc["a"] = "idle" /\ \E in \in PressureInputs : Arrive("a", in)
    \/ Gate("a")
    \/ \E ok \in BOOLEAN : MemRead("a", ok)
    \/ \E r \in PressureCompletions : Complete("a", r)
    \/ \E o \in {"ok", "error", "throw"} : Write("a", o)

SpecCopies == InitCopies /\ [][NextCopies]_vars

\* One request that is, or looks like, a reaction to an earlier reply.
NextReaction ==
    \/ pc["a"] = "idle" /\ \E in \in ReactionInputs : Arrive("a", in)
    \/ Gate("a")
    \/ \E ok \in BOOLEAN : MemRead("a", ok)
    \/ \E r \in Completions : Complete("a", r)
    \/ \E o \in {"ok", "error", "throw"} : Write("a", o)

SpecReaction == InitPipe /\ [][NextReaction]_vars

\* Two users in two concurrent slots, with or without credentials, the
\* clock advancing: whose entry of the rate-limit map a request touches.
InitQuota == Init /\ ~env.debug /\ ~env.supabase

NextQuota ==
    \/ \E s \in Slots, in \in QuotaInputs :
          MayArrive(in, MaxCount) /\ Arrive(s, in)
    \/ \E s \in Slots : Gate(s)
    \/ \E s \in Slots, r \in {CompletionError, CompletionEmpty} : Complete(s, r)
    \/ \E s \in Slots : Recycle(s)
    \/ Tick

SpecQuota == InitQuota /\ [][NextQuota]_vars

\* One request, over every completion text of Texts: the sanitizer.
NextText ==
    \/ pc["a"] = "idle" /\ \E in \in TextInputs : Arrive("a", in)
    \/ Gate("a")
    \/ \E ok \in BOOLEAN : MemRead("a", ok)
    \/ \E r \in Texts : Complete("a", r)
    \/ \E o \in {"ok", "error", "throw"} : Write("a", o)

SpecText == InitPipe /\ [][NextText]_vars

\* ------------------------------------------------------------------ claims

Admitted(s) == gate[s] \in {Some("first"), Some("within")}

\* C1: counting from the request that opens a user's window (count 1, reset
\* time = its time + 60 s), the 2nd to the 30th request of the window are
\* admitted, the 31st and later ones are answered 429, and the request that
\* opens a window is admitted and leaves count 1 with the new reset time.
C1_FixedWindowLimit ==
    /\ \A s \in Slots :
          /\ Admitted(s) => Status(s) # 429 /\ "normalize" \in trace[s]
          /\ gate[s] = Some("over") => Status(s) = 429
    /\ \A u \in Users :
          win[u] # Absent /\ Val(win[u]).passed = 1
              => rateMap[u] = Entry(1, Val(win[u]).start + RATE_WINDOW_MS)

\* A 31st request was answered 429 and, after the window, the next request
\* of the user opened a new one.
C1_Witness ==
    \E s1, s2 \in Slots :
        /\ gate[s1] = Some("over") /\ Status(s1) = 429
        /\ gate[s2] = Some("first") /\ inp[s2].userId = inp[s1].userId
        /\ Val(win[inp[s2].userId]).start > 0
        /\ "completion" \in trace[s2]

\* C2: whatever the interleaving of the requests of a user, after k of them
\* have passed the limiter in one window the stored count is k, and at most
\* 30 of them were admitted.
C2_AtomicCount ==
    \A u \in Users :
        win[u] # Absent =>
            /\ rateMap[u] # Absent
            /\ Val(rateMap[u]).count = Val(win[u]).passed
            /\ Val(win[u]).admitted <= RATE_MAX
            /\ Val(win[u]).admitted =
                  IF Val(win[u]).passed <= RATE_MAX THEN Val(win[u]).passed
                  ELSE RATE_MAX

\* Two requests of one user are both suspended in the completion call, in a
\* window that is full.
C2_Witness ==
    \E s1, s2 \in Slots :
        /\ s1 # s2
        /\ pc[s1] = "completion" /\ pc[s2] = "completion"
        /\ inp[s1].userId = inp[s2].userId
        /\ Val(win[inp[s1].userId]).passed = RATE_MAX

StagesAfterLimiter ==
    {"normalize", "memread", "update", "profile", "recovery", "completion",
     "sanitize", "written"}

\* C3: a request whose incremented count exceeds 30 is answered 429, and for
\* it no metric is normalized, the memory store is neither read nor updated
\* and the completion service is not called.  (The credentials check, the
\* body parsing and the validation do come before the limiter.)
C3_RejectedBeforePipeline ==
    \A s \in Slots :
        /\ gate[s] = Some("over") => Status(s) = 429
        /\ Status(s) = 429 =>
              /\ trace[s] \cap StagesAfterLimiter = {}
              /\ writes[s] = <<>>
              /\ mem[s] = NoMemory

\* A request is answered 429 by a server that has a memory store which
\* earlier requests of the user have written.
C3_Witness ==
    \E s \in Slots :
        /\ Status(s) = 429 /\ env.supabase
        /\ Known(store[inp[s].userId].days_active)

\* C4: the completion service is called for a request iff the request is
\* valid, admitted by the limiter and takes neither the profile shortcut
\* (profile flag and one of height, weight, age known) nor the recovery
\* shortcut (recovery flag); no shortcut response comes with a call.
C4_CompletionIff ==
    \A s \in Slots :
        LET in == inp[s]
            called == "completion" \in trace[s]
            profile == /\ isProfileQuery(in.question.w)
                       /\ \/ Known(num(in.heightCm))
                          \/ Known(num(in.weightKg))
                          \/ Known(num(in.age))
            due == /\ ~InvalidRequest(in) /\ Admitted(s)
                   /\ ~profile /\ ~isRecoveryQuery(in.question.w)
        IN  /\ called => due
            /\ pc[s] \in {"completion", "done"} /\ due => called
            /\ "profile" \in trace[s] \/ "recovery" \in trace[s] => ~called

\* The completion service is called for a question that asks for the
\* profile when no profile field is known.
C4_Witness ==
    \E s \in Slots :
        /\ "completion" \in trace[s]
        /\ isProfileQuery(inp[s].question.w)

\* The profile fields a request carries, as the profile reply lists them.
ListedProfile(in) ==
    (IF in.heightCm = RawNum(17000) THEN <<"Height: 5' 7''">> ELSE <<>>)
    \o (IF in.weightKg = RawNum(70) THEN <<"Weight: 154 lb">> ELSE <<>>)
    \o (IF in.age = RawNum(30) THEN <<"Age: 30">> ELSE <<>>)

ProfileAnswered(s, in) ==
    /\ Status(s) = 200
    /\ BodyOf(s) = <<"Yep -- " \o Join(ListedProfile(in), " * ") \o ".">>
    /\ trace[s] \cap {"completion", "recovery", "sanitize"} = {}

\* C5, as stated: whenever the profile flag is set and one of height, weight
\* and age is known, the response is exactly "Yep -- " followed by the known
\* fields joined by " * " and a period, without a completion call, even when
\* the recovery flag is set too.
C5_Original ==
    \A s \in Slots :
        LET in == inp[s]
        IN  /\ pc[s] \in {"completion", "done"}
            /\ isProfileQuery(in.question.w)
            /\ ListedProfile(in) # <<>>
            => ProfileAnswered(s, in)

\* C5, amended: the same, when the debug flag is off.  (With the debug flag
\* on the reply is prefixed with "[PROFILE_SHORTCUT] " and followed by the
\* debug footer.)
C5_ProfileShortcut ==
    \A s \in Slots :
        LET in == inp[s]
        IN  /\ pc[s] \in {"completion", "done"}
            /\ isProfileQuery(in.question.w)
            /\ ListedProfile(in) # <<>>
            /\ ~env.debug
            => ProfileAnswered(s, in)

\* A question with both flags set, with height, weight and age known, is
\* answered by the profile shortcut.
C5_Witness ==
    \E s \in Slots :
        /\ pc[s] = "done"
        /\ inp[s].question = QBoth
        /\ ~env.debug
        /\ BodyOf(s) = <<"Yep -- Height: 5' 7'' * Weight: 154 lb * Age: 30.">>

\* C6, as stated: when the profile flag is set and none of height, weight
\* and age is known, the response is the fixed "I don't see height/weight/
\* age from HealthKit yet." message, without a completion call.
C6_NoProfileMessage ==
    \A s \in Slots :
        LET in == inp[s]
            m == Normalize(in)
        IN  /\ pc[s] \in {"completion", "done"}
            /\ Admitted(s)
            /\ isProfileQuery(in.question.w)
            /\ ~Known(m.heightUs) /\ ~Known(m.weightLbs) /\ ~Known(m.age)
            => /\ Status(s) = 200
               /\ BodyOf(s) # <<>> /\ BodyOf(s)[1] = NoProfileMsg
               /\ "completion" \notin trace[s]

AbsentOrZero(x) == x = RawNull \/ x = RawNum(0)

\* C7: when the recovery flag is set, the profile shortcut is not taken and
\* each of today's sleep, resting heart rate and HRV is absent or zero, the
\* response is the fixed "recovery metrics not ready" message, without a
\* completion call.
C7_RecoveryNotReady ==
    \A s \in Slots :
        LET in == inp[s]
        IN  /\ pc[s] \in {"completion", "done"}
            /\ Admitted(s)
            /\ isRecoveryQuery(in.question.w)
            /\ "profile" \notin trace[s]
            /\ AbsentOrZero(in.sleepHours)
            /\ AbsentOrZero(in.restingHeartRate)
            /\ AbsentOrZero(in.hrvSdnn)
            => /\ Status(s) = 200
               /\ BodyOf(s) # <<>> /\ BodyOf(s)[1] = RecoveryNotReadyMsg
               /\ "completion" \notin trace[s]

\* A recovery question with a zero sleep value and no heart data is answered
\* with the fixed message.
C7_Witness ==
    \E s \in Slots :
        /\ pc[s] = "done"
        /\ isRecoveryQuery(inp[s].question.w)
        /\ inp[s].sleepHours = RawNum(0)
        /\ inp[s].restingHeartRate = RawNull
        /\ BodyOf(s) # <<>> /\ BodyOf(s)[1] = RecoveryNotReadyMsg

\* C8, as stated: the memory updater runs only on the success path, once
\* a response has been computed; a request that ends in an error response
\* (400, 429, 500) has written nothing to the memory store.
C8_ErrorWritesNothing ==
    \A s \in Slots :
        Status(s) \in {400, 429, 500} => "written" \notin trace[s]

\* The responses a request with body in and memory snapshot memories can
\* get once its updater has started, one for each completion result.
ResponsesFor(in, memories) ==
    LET m == Normalize(in)
        w == in.question.w
        footer == debugFooter(env.debug, m, memories)
    IN  IF isProfileQuery(w) /\ AnyProfileKnown(m)
        THEN {Response(200, Plus(<<profileReply(env.debug, m)>>, footer))}
        ELSE IF isRecoveryQuery(w)
        THEN {Response(200, Plus(<<recoveryReply(m)>>, footer))}
        ELSE { IF r.t = "error" THEN Response(500, <<FailedMsg>>)
               ELSE Response(200, Plus(sanitized(in, m, r.content), footer)) :
               r \in Completions }

\* C9's safety half: the status and body of a response are those the
\* request body, the memory snapshot and the completion result give,
\* whatever the updater's writes have done.
ResponseFromRequestAlone ==
    \A s \in Slots :
        "update" \in trace[s] /\ resp[s] # Absent =>
            resp[s] \in ResponsesFor(inp[s], mem[s])

\* C9: the response never waits for the memory updater (a request suspended
\* in the completion call gets its response even when the updater's writes
\* never finish), and its status and body are the same whether those writes
\* succeed, fail or hang.
C9_ResponseIgnoresUpdater ==
    /\ []ResponseFromRequestAlone
    /\ \A s \in Slots : (pc[s] = "completion") ~> (resp[s] # Absent)

\* A response of the completion path has been returned after one write of
\* the request's updater failed, while another is still pending and none
\* has been made.
C9_Witness ==
    \E s \in Slots :
        /\ Status(s) = 200 /\ "sanitize" \in trace[s]
        /\ writes[s] # <<>> /\ "written" \notin trace[s]
        /\ Len(writes[s]) <
              Len(startedWrites(TRUE, inp[s], Normalize(inp[s]), mem[s]))

\* C10, as stated: once every started updater of a user has made its writes
\* and none failed, days_active has grown by one for each request of the
\* user that started an updater.
C10_NoLostUpdate ==
    \A u \in Users :
        /\ \A s \in Slots : inp[s].userId = u => writes[s] = <<>>
        /\ ~hist[u].failed
        /\ hist[u].started <= MaxCounter
        => daysActive(store[u]) = hist[u].started

\* C11: a request whose memory read failed goes on with empty memory (days
\* active 0, protein streak 0, no last feedback), starts its updater from
\* that, and gets the response it would get with nothing stored: a 200, or
\* the 500 of a failed completion call, never an error for the read.
C11_ReadFailureSwallowed ==
    \A s \in Slots :
        "readfailed" \in trace[s] =>
            /\ mem[s] = NoMemory
            /\ daysActive(mem[s]) = 0 /\ proteinStreak(mem[s]) = 0
            /\ pc[s] \in {"completion", "done"}
            /\ "update" \in trace[s]
            /\ resp[s] # Absent =>
                  /\ resp[s] \in ResponsesFor(inp[s], NoMemory)
                  /\ Status(s) = 500 => calls[s] = <<"error">>

\* A request whose read failed, for a user with rows in the store, got 200.
C11_Witness ==
    \E s \in Slots :
        /\ "readfailed" \in trace[s]
        /\ Status(s) = 200
        /\ Known(store[inp[s].userId].days_active)
        /\ Val(store[inp[s].userId].days_active) >= 2

\* C12: a request makes at most one completion call, exactly one when it
\* reaches the completion stage; when the call fails the request is ended
\* with the generic 500 and no second call.
C12_SingleCall ==
    \A s \in Slots :
        /\ Len(calls[s]) <= 1
        /\ "completion" \in trace[s] <=> Len(calls[s]) = 1
        /\ calls[s] # <<>> /\ calls[s][1] = "error" =>
              /\ pc[s] = "done"
              /\ resp[s] = Response(500, <<FailedMsg>>)

\* A request whose one completion call failed was answered 500.
C12_Witness ==
    \E s \in Slots : calls[s] = <<"error">> /\ Status(s) = 500

\* C13, as stated: a completion that comes back without message content is
\* treated as a failure: the response is the generic 500, never a 200 with
\* a placeholder text.
C13_EmptyIsFailure ==
    \A s \in Slots :
        calls[s] = <<"empty">> => resp[s] = Response(500, <<FailedMsg>>)

\* C14, as stated: every request gets a response in the end, also when the
\* completion service never replies.
C14_EveryRequestAnswered ==
    \A s \in Slots : (pc[s] # "idle") ~> (resp[s] # Absent)

\* The body lacks a user id or a question that is a string with something
\* other than white space in it.
Malformed(in) ==
    \/ in.userId = ""
    \/ in.question.t # "str"
    \/ \A i \in 1..Len(in.question.w) : in.question.w[i] \in {" ", "\n"}

OneResponse ==
    \A s \in Slots :
        resp[s] # Absent => resp'[s] = resp[s] \/ pc'[s] = "idle"

\* The statuses, with the credentials check first.
StatusByCase ==
    \A s \in Slots :
        resp[s] # Absent =>
            /\ pc[s] = "done"
            /\ Status(s) \in {200, 400, 429, 500}
            /\ IF ~env.apiKey
               THEN resp[s] = Response(500, <<MisconfiguredMsg>>)
               ELSE /\ Status(s) = 400 <=> Malformed(inp[s])
                    /\ Status(s) = 400 => BodyOf(s) = <<InvalidMsg>>
                    /\ Status(s) = 429 <=> gate[s] = Some("over")
                    /\ Status(s) = 429 => BodyOf(s) = <<RateLimitMsg>>
                    /\ Status(s) = 500 <=> calls[s] = <<"error">>
                    /\ Status(s) = 500 => BodyOf(s) = <<FailedMsg>>
                    /\ Status(s) = 200 =>
                          \/ calls[s] \in {<<"text">>, <<"empty">>}
                          \/ /\ calls[s] = <<>>
                             /\ trace[s] \cap {"profile", "recovery"} # {}

NotANumber == {RawNull, RawNaN, RawInfinity, RawEmptyStr, RawJunk}

\* C16, as stated: a raw value that is null, undefined, NaN, an infinity or
\* a string that is not a numeral, the empty string included, is normalized
\* to absent.
C16_NonNumericIsAbsent ==
    \A s \in Slots :
        ctx[s] # Absent =>
            \A f \in {"age", "proteinRemainingG", "sleepHours"} :
                inp[s][f] \in NotANumber => Val(ctx[s]).metrics[f] = Absent

\* A raw value that is a number, as an optional number.
Given(x) == IF x.t = "num" THEN Some(x.n) ELSE Absent

\* today - average when both are given, today's HRV not being 0.
Delta(today, avg) ==
    IF Known(Given(today)) /\ Known(Given(avg))
    THEN Some(Val(Given(today)) - Val(Given(avg))) ELSE Absent

\* C17: the readiness hint is one of green, yellow, red; red whenever sleep
\* is known and below 6 h; green exactly when no red condition (sleep < 6 h,
\* RHR delta >= 6, HRV delta <= -10) holds, sleep is known and at least 7 h,
\* the RHR delta is absent or <= 0 and the HRV delta absent or >= 0; yellow
\* in every other case, also when sleep is absent.
C17_ReadinessHint ==
    \A s \in Slots :
        ctx[s] # Absent /\ inp[s] \in ReadinessInputs =>
            LET hint == Val(ctx[s]).readinessHint
                sleep == Given(inp[s].sleepHours)
                rhr == Delta(inp[s].restingHeartRate, inp[s].rhrAvg7d)
                hrv == IF inp[s].hrvSdnn = RawNum(0) THEN Absent
                       ELSE Delta(inp[s].hrvSdnn, inp[s].hrvAvg7d)
                short == Known(sleep) /\ Val(sleep) < 60
                red == \/ short
                       \/ Known(rhr) /\ Val(rhr) >= 6
                       \/ Known(hrv) /\ Val(hrv) <= -10
                green == /\ ~red
                         /\ Known(sleep) /\ Val(sleep) >= 70
                         /\ (rhr = Absent \/ Val(rhr) <= 0)
                         /\ (hrv = Absent \/ Val(hrv) >= 0)
            IN  /\ hint \in {"green", "yellow", "red"}
                /\ short => hint = "red"
                /\ hint = "red" <=> red
                /\ hint = "green" <=> green
                /\ sleep = Absent /\ ~red => hint = "yellow"

\* 5.9 h of sleep is red although both deltas are favourable.
C17_Witness ==
    \E s \in Slots :
        /\ ctx[s] # Absent
        /\ inp[s].sleepHours = RawNum(59)
        /\ inp[s].restingHeartRate = RawNum(60) /\ inp[s].rhrAvg7d = RawNum(60)
        /\ inp[s].hrvSdnn = RawNum(40) /\ inp[s].hrvAvg7d = RawNum(40)
        /\ Val(ctx[s]).readinessHint = "red"

\* C18: protein per meal is round(remaining / meals left) clamped to
\* [25, 70], with 3 meals left before 11:00, 2 from 11:00 to 20:59 and 1
\* from 21:00; it is in [25, 70] whenever remaining protein is known, at
\* every hour, and undefined exactly when remaining protein is unknown.
C18_ProteinPerMeal ==
    \A s \in Slots :
        ctx[s] # Absent /\ inp[s] \in ProteinInputs =>
            LET hour == Val(ctx[s]).localHour
                left == Given(inp[s].proteinRemainingG)
                perMeal == Val(ctx[s]).proteinPerMealG
                meals == IF hour \in 0..10 THEN 3
                         ELSE IF hour \in 11..20 THEN 2 ELSE 1
            IN  /\ hour \in 0..23
                /\ perMeal = Absent <=> left = Absent
                /\ left # Absent =>
                      /\ Val(perMeal) \in 25..70
                      /\ \E q \in -10..250 :
                            /\ 2 * meals * q <= 2 * Val(left) + meals
                            /\ 2 * Val(left) + meals < 2 * meals * (q + 1)
                            /\ Val(perMeal) =
                                  IF q < 25 THEN 25 ELSE IF q > 70 THEN 70 ELSE q

\* 110 g left at 19:00 gives 55 g per meal.
C18_Witness ==
    \E s \in Slots :
        /\ ctx[s] # Absent
        /\ inp[s].proteinRemainingG = RawNum(110)
        /\ Val(ctx[s]).localHour = 19
        /\ Val(ctx[s]).proteinPerMealG = Some(55)

Cue(s, word) == \E i \in 1..Len(inp[s].question.w) : inp[s].question.w[i] = word

\* C19: the intent is one of the six, by the first rule that matches: a
\* meta-feedback cue; a numbers cue with a motivation cue is motivation; a
\* numbers cue; a food cue; a motivation cue; a progress cue; else general.
C19_IntentPrecedence ==
    \A s \in Slots :
        ctx[s] # Absent /\ inp[s] \in IntentInputs =>
            LET meta == Cue(s, "feedback")
                numbers == \/ Cue(s, "calories")
                           \/ Cue(s, "protein") /\ Cue(s, "how much")
                food == Cue(s, "dinner")
                motivation == Cue(s, "roast me")
                progress == Cue(s, "progress")
                expected ==
                    IF meta THEN "meta_feedback"
                    ELSE IF numbers /\ motivation THEN "motivation"
                    ELSE IF numbers THEN "numbers"
                    ELSE IF food THEN "food"
                    ELSE IF motivation THEN "motivation"
                    ELSE IF progress THEN "progress"
                    ELSE "general"
            IN  Val(ctx[s]).intent = expected

\* "calories" with "roast me" is motivation, a food cue notwithstanding.
C19_Witness ==
    \E s \in Slots :
        /\ ctx[s] # Absent
        /\ Cue(s, "calories") /\ Cue(s, "roast me") /\ Cue(s, "dinner")
        /\ ~Cue(s, "feedback")
        /\ Val(ctx[s]).intent = "motivation"

\* The "?" at i ends a sentence of the body: the body ends there, or white
\* space follows (the debug footer begins with a line break).
EndsSentence(body, i, footer) ==
    /\ body[i] = "?"
    /\ \/ i = Len(body)
       \/ IsWs(body[i + 1])
       \/ i + 1 = Len(body) /\ footer # "" /\ body[i + 1] = footer

\* C20: when the user's message does not end with "?", the 200 body of the
\* completion path holds no sentence that ends with "?", whatever the
\* completion text.
C20_NoQuestionSentence ==
    \A s \in Slots :
        /\ pc[s] = "done"
        /\ "sanitize" \in trace[s]
        /\ ~userAskedAQuestion(inp[s].question.w)
        => LET body == Val(resp[s]).body
               footer == debugFooter(env.debug, Normalize(inp[s]), mem[s])
           IN  \A i \in 1..Len(body) : ~EndsSentence(body, i, footer)

\* The body without the debug footer.
TextOf(body, footer) ==
    IF footer = "" THEN body ELSE SubSeq(body, 1, Len(body) - 1)

\* C21: the strip of sentences ending in "?" is idempotent: applied to a
\* text it has produced, it returns that text unchanged.
C21_StripIdempotent ==
    \A s \in Slots :
        /\ pc[s] = "done"
        /\ "sanitize" \in trace[s]
        /\ ~userAskedAQuestion(inp[s].question.w)
        /\ ~isReactionMessage(inp[s].question.w)
        => LET footer == debugFooter(env.debug, Normalize(inp[s]), mem[s])
               stripped == TextOf(Val(resp[s]).body, footer)
           IN  dropQuestions(stripped) = stripped

\* C22: the height is whole feet and the remaining inches rounded to the
\* nearest integer, the inches always in 0..11 (12 inches are carried into
\* the feet); 182.88 cm is 6' 0'' and 170 cm is 5' 7''.
C22_InchesBelowTwelve ==
    \A s \in Slots :
        ctx[s] # Absent /\ inp[s] \in HeightInputs =>
            LET cm == inp[s].heightCm.n
                heightUs == Val(ctx[s]).metrics.heightUs
            IN  /\ heightUs # Absent
                /\ \E ft \in 0..9, inch \in 0..11 :
                      /\ Val(heightUs) =
                            ToString(ft) \o "' " \o ToString(inch) \o "''"
                      /\ 12 * ft + inch = RoundDiv(cm, 254)
                /\ cm = 18288 => Val(heightUs) = "6' 0''"
                /\ cm = 17000 => Val(heightUs) = "5' 7''"

\* The protein-streak upserts among a list of upserts.
StreakWrites(ups) == SelectSeq(ups, LAMBDA u : u.key = "protein_streak_days")

\* C23: relative to the snapshot read at request start, the updater writes
\* the protein streak as snapshot + 1 when today's protein is known and at
\* least 140 g, as 0 when the snapshot streak is above 0 and protein is
\* below 140 g or unknown, and does not write it when the snapshot streak is
\* 0 and protein is below 140 g or unknown.
C23_ProteinStreakRule ==
    \A s \in Slots :
        /\ "update" \in trace[s]
        /\ writes[s] # <<>>
        /\ Head(writes[s]).key = "days_active"
        => LET protein == Given(inp[s].dietaryProteinG)
               reached == protein # Absent /\ Val(protein) >= 140
               snapshot == IF mem[s].protein_streak_days = Absent THEN 0
                           ELSE Val(mem[s].protein_streak_days)
               written == StreakWrites(writes[s])
           IN  /\ reached =>
                     written = <<[key |-> "protein_streak_days",
                                  value |-> snapshot + 1]>>
               /\ ~reached /\ snapshot > 0 =>
                     written = <<[key |-> "protein_streak_days", value |-> 0]>>
               /\ ~reached /\ snapshot = 0 => written = <<>>

\* A streak of at least 1 is reset by a day of 139 g.
C23_Witness ==
    \E s \in Slots :
        /\ "update" \in trace[s]
        /\ inp[s].dietaryProteinG = RawNum(139)
        /\ mem[s].protein_streak_days # Absent
        /\ Val(mem[s].protein_streak_days) > 0
        /\ StreakWrites(writes[s]) =
              <<[key |-> "protein_streak_days", value |-> 0]>>

\* How many of four sub-checks pass.
Count4(a, b, c, d) ==
    (IF a THEN 1 ELSE 0) + (IF b THEN 1 ELSE 0) + (IF c THEN 1 ELSE 0)
    + (IF d THEN 1 ELSE 0)

\* On-track as the claim states it, the average counting as existing when it
\* satisfies exists.
OnTrackBy(in, exists) ==
    LET steps == Given(in.steps)
        avg == Given(in.steps7dAvg)
        sleep == Given(in.sleepHours)
        movement == IF steps = Absent THEN TRUE
                    ELSE IF exists
                    THEN 10 * Val(steps) >= 8 * Val(avg)
                    ELSE Val(steps) >= 6000
        sleeping == sleep = Absent \/ Val(sleep) >= 65
        nutrition == ~(in.hasAnyNutritionToday = RawTrue
                       /\ in.proteinBehindPace = RawTrue)
        training == IF Given(in.workoutMinutes) # Absent
                       \/ Given(in.workoutCount) # Absent THEN TRUE
                    ELSE IF steps = Absent THEN TRUE
                    ELSE Val(steps) >= 10000
    IN  Count4(movement, sleeping, nutrition, training) >= 3

\* C24 as stated: on-track holds iff at least 3 of the 4 sub-checks pass,
\* movement comparing the steps with 80% of the 7-day average whenever an
\* average exists.
C24_Original ==
    \A s \in Slots :
        ctx[s] # Absent /\ inp[s] \in OnTrackInputs =>
            Val(ctx[s]).onTrack
                = OnTrackBy(inp[s], Given(inp[s].steps7dAvg) # Absent)

\* C24: on-track holds iff at least 3 of the 4 sub-checks pass: movement
\* passes if steps are absent, else on steps >= 80% of the 7-day average
\* when an average other than 0 exists, else on steps >= 6000; sleep passes
\* if absent or >= 6.5 h; nutrition passes unless nutrition was logged and
\* protein is behind pace; training passes if workout minutes or count
\* exist, else if steps are absent, else on steps >= 10000.
C24_OnTrack ==
    \A s \in Slots :
        ctx[s] # Absent /\ inp[s] \in OnTrackInputs =>
            /\ Val(ctx[s]).onTrack
                  = OnTrackBy(inp[s], /\ Given(inp[s].steps7dAvg) # Absent
                                      /\ inp[s].steps7dAvg.n # 0)
            /\ inp[s] = Request("u1", QPlain) => Val(ctx[s]).onTrack

\* Steps at 80% of the average and below 10000, with short sleep: movement
\* and nutrition pass, sleep and training fail, and on-track is false.
C24_Witness ==
    \E s \in Slots :
        /\ ctx[s] # Absent
        /\ inp[s].steps = RawNum(8000) /\ inp[s].steps7dAvg = RawNum(10000)
        /\ inp[s].sleepHours = RawNum(64)
        /\ inp[s].workoutMinutes = RawNull /\ inp[s].workoutCount = RawNull
        /\ Val(ctx[s]).movementOk
        /\ ~Val(ctx[s]).onTrack

\* C25: a 7-day steps average below 2000 is discarded for every use: it is
\* unknown in the prompt and the movement sub-check applies the rule
\* "steps >= 6000".
C25_LowAverageDiscarded ==
    \A s \in Slots :
        /\ ctx[s] # Absent
        /\ inp[s] \in OnTrackInputs
        /\ Given(inp[s].steps7dAvg) # Absent
        /\ inp[s].steps7dAvg.n < 2000
        => /\ Val(ctx[s]).metrics.steps7dAvgUsable = Absent
           /\ Val(ctx[s]).movementOk
                 = (Given(inp[s].steps) = Absent \/ inp[s].steps.n >= 6000)

\* low < medium < high
Level(pressure) ==
    CASE pressure = "low" -> 1 [] pressure = "medium" -> 2
      [] pressure = "high" -> 3

\* C26: the effective pressure is the base of the stored preference (1 low,
\* 3 high, else medium), lowered one step (high to medium, else to low) when
\* the last feedback is "too much pressure", then forced to low for the
\* intents numbers and meta_feedback and when on track with an intent other
\* than motivation, else lowered from high to medium when on track.  It
\* never exceeds the base, is low for numbers and meta_feedback, and is high
\* only with preference 3, no "too much pressure" feedback and not on track.
C26_EffectivePressure ==
    \A s \in Slots :
        ctx[s] # Absent /\ inp[s] \in PressureInputs =>
            LET preference == Given(inp[s].pressure)
                base == IF preference = Some(1) THEN "low"
                        ELSE IF preference = Some(3) THEN "high"
                        ELSE "medium"
                tooMuch == mem[s].last_feedback = Some("too_much_pressure")
                eased == IF ~tooMuch THEN base
                         ELSE IF base = "high" THEN "medium" ELSE "low"
                asked == Val(ctx[s]).intent
                track == Val(ctx[s]).onTrack
                expected ==
                    IF asked \in {"numbers", "meta_feedback"} THEN "low"
                    ELSE IF track /\ asked # "motivation" THEN "low"
                    ELSE IF track /\ eased = "high" THEN "medium"
                    ELSE eased
                pressure == Val(ctx[s]).effectivePressure
            IN  /\ pressure = expected
                /\ Level(pressure) <= Level(base)
                /\ asked \in {"numbers", "meta_feedback"} => pressure = "low"
                /\ pressure = "high" =>
                      preference = Some(3) /\ ~tooMuch /\ ~track

\* Preference 3, not on track, after "too much pressure": medium.
C26_Witness ==
    \E s \in Slots :
        /\ ctx[s] # Absent
        /\ inp[s].pressure = RawNum(3)
        /\ inp[s].question = QMotivate
        /\ mem[s].last_feedback = Some("too_much_pressure")
        /\ ~Val(ctx[s]).onTrack
        /\ Val(ctx[s]).effectivePressure = "medium"

\* C27: the allow-pop-culture flag is true only if the question is not
\* low-mood, the intent is motivation or progress, and the tone is sharp or
\* the resolved effective pressure is not low; computing it never fails the
\* request: past the limiter a 500 comes only from a failed completion call.
C27_PopCultureFromResolvedPressure ==
    \A s \in Slots :
        /\ ctx[s] # Absent /\ Val(ctx[s]).allowPopCulture =>
              /\ ~(\E i \in 1..Len(inp[s].question.w) :
                      inp[s].question.w[i] \in LowMoodWords)
              /\ Val(ctx[s]).intent \in {"motivation", "progress"}
              /\ \/ inp[s].tone = "sharp"
                 \/ Val(ctx[s]).effectivePressure # "low"
        /\ Status(s) = 500 /\ "normalize" \in trace[s] =>
              calls[s] = <<"error">>

\* The trimmed message is one of the reactions of the bodies.
Reacts(in) ==
    in.question \in {Question(<<"meh">>), Question(<<"lol">>),
                     Question(<<" ", "meh", " ">>)}

FixedReplies ==
    {<<"Fair. That one was mid. I'll do better.">>, <<"That tracks.">>,
     <<"Fair.">>}

\* The reply to a reaction to the assistant text last.
ReplyTo(in, last) ==
    LET negative == \E i \in 1..Len(in.question.w) : in.question.w[i] = "meh"
        roast == \E i \in 1..Len(last) : last[i] \in RoastWords
    IN  IF negative /\ roast THEN <<"Fair. That one was mid. I'll do better.">>
        ELSE IF negative THEN <<"Fair.">>
        ELSE <<"That tracks.">>

\* The insight of the 200 response made after the completion call returned.
Answered(s) ==
    TextOf(Val(resp[s]).body,
           debugFooter(env.debug, Normalize(inp[s]), mem[s]))

\* C28 as stated: a reaction with an assistant turn of non-empty text
\* anywhere in the chat history is answered by one of the fixed replies.
C28_Original ==
    \A s \in Slots :
        /\ pc[s] = "done"
        /\ "sanitize" \in trace[s]
        /\ Reacts(inp[s])
        /\ \E i \in 1..Len(inp[s].chatHistory) :
              /\ inp[s].chatHistory[i].role = "assistant"
              /\ inp[s].chatHistory[i].text # <<>>
        => Answered(s) \in FixedReplies

\* C28: when the trimmed message is a reaction and the most recent assistant
\* turn of the chat history has non-empty text, the response is the fixed
\* reply chosen by whether the reaction is negative and whether that turn
\* was a roast, whatever the completion text, with no other sanitizer step
\* applied.
C28_ReactionBypass ==
    \A s \in Slots :
        /\ pc[s] = "done"
        /\ "sanitize" \in trace[s]
        /\ Reacts(inp[s])
        => \A i \in 1..Len(inp[s].chatHistory) :
              LET h == inp[s].chatHistory
              IN  /\ h[i].role = "assistant"
                  /\ h[i].text # <<>>
                  /\ \A j \in (i + 1)..Len(h) : h[j].role # "assistant"
                  => Answered(s) = ReplyTo(inp[s], h[i].text)

\* "meh" after a roast, with a completion that returned text.
C28_Witness ==
    \E s \in Slots :
        /\ pc[s] = "done"
        /\ calls[s] = <<"text">>
        /\ inp[s].question = Question(<<"meh">>)
        /\ inp[s].chatHistory = <<Turn("assistant", <<"olympic", "snack">>)>>
        /\ Answered(s) = <<"Fair. That one was mid. I'll do better.">>

\* In this step the request in slot s, a valid one of user u, passes the
\* validation and reaches the limiter.
Reaches(s, u) ==
    /\ pc[s] = "json" /\ pc'[s] # "json"
    /\ inp[s].userId = u
    /\ inp[s].question.t = "str"
    /\ \E i \in 1..Len(inp[s].question.w) : inp[s].question.w[i] # " "

\* C29: an entry of the rate-limit map changes only when a valid request of
\* that entry's user reaches the limiter: a request answered 500 for missing
\* credentials or 400 for an invalid body changes no entry, a request of one
\* user never changes the entry of another, and no entry is ever removed.
C29_QuotaFrame ==
    [][\A u \in Users :
          rateMap'[u] # rateMap[u] =>
              /\ rateMap'[u] # Absent
              /\ \E s \in Slots : Reaches(s, u)]_vars

\* A request of u2 was answered 400 and u2 has no entry, while u1 has one.
C29_Witness ==
    \E s \in Slots :
        /\ Status(s) = 400
        /\ inp[s].userId = "u2"
        /\ rateMap["u2"] = Absent
        /\ rateMap["u1"] # Absent

\* C30: the window is fixed: a request of a user that reaches the limiter
\* while the user's entry exists and its reset time has not passed leaves
\* the reset time alone and adds exactly 1 to the count, also when it is
\* answered 429; the reset time changes only for a request that finds no
\* entry or arrives strictly after the reset time; nothing else changes the
\* entry.
C30_FixedWindow ==
    [][\A u \in Users :
          LET entry == rateMap[u]
              after == rateMap'[u]
              open == entry # Absent /\ ~(now > Val(entry).resetAt)
          IN  IF \E s \in Slots : Reaches(s, u)
              THEN /\ after # Absent
                   /\ open => /\ Val(after).resetAt = Val(entry).resetAt
                              /\ Val(after).count = Val(entry).count + 1
                   /\ ~open => Val(after).resetAt = now + RATE_WINDOW_MS
              ELSE after = entry]_vars

\* A request counted beyond the limit, later than the one that opened the
\* window: the count is above 30 and the reset time is the opener's.
C30_Witness ==
    \E s \in Slots :
        /\ Status(s) = 429
        /\ rateMap[inp[s].userId] # Absent
        /\ Val(rateMap[inp[s].userId]).count > RATE_MAX
        /\ Val(rateMap[inp[s].userId]).resetAt < now + RATE_WINDOW_MS

====
